---------------------------- MODULE Spec2Model ----------------------------
(***************************************************************************)
(* Model of the perft driver of src/src/search.cpp: the move generator     *)
(* with its global cache (getLegalMovesForPiece), the legality filter      *)
(* (filterLegalMoves, isSquareAttacked), the in-place make/unmake loop of  *)
(* countMovesAtDepth, the root-splitting countMovesParallel and the depth  *)
(* loop of calculateMovesForPosition that calls them.                      *)
(*                                                                         *)
(* A BoardPosition is <<column, row>>; row 0 is rank 8 and row 7 is rank   *)
(* 1, column 0 is file a.  The std::map<BoardPosition, ChessPiece> is a    *)
(* function over 0..63 indexed by column*8+row, which is the map's         *)
(* iteration order (pairs compare by column, then row); NoPiece marks a    *)
(* key the map does not hold.                                              *)
(***************************************************************************)
EXTENDS Integers, Sequences, FiniteSets, TLC

WHITE == "WHITE"
BLACK == "BLACK"
PAWN == "PAWN"
ROOK == "ROOK"
KNIGHT == "KNIGHT"
BISHOP == "BISHOP"
QUEEN == "QUEEN"
KING == "KING"

NoPiece == [type |-> "NONE", color |-> "NONE"]
NoPos == <<-1, -1>>

ChessPiece(t, c) == [type |-> t, color |-> c]

Idx(pos) == pos[1] * 8 + pos[2]
PosOf(i) == <<i \div 8, i % 8>>
OnBoard(c, r) == c >= 0 /\ c < 8 /\ r >= 0 /\ r < 8

\* pieces.find(pos): the piece at pos, NoPiece for pieces.end()
At(p, c, r) == p[c * 8 + r]
Has(p, c, r) == p[c * 8 + r] # NoPiece

Abs(x) == IF x < 0 THEN -x ELSE x
Opponent(color) == IF color = WHITE THEN BLACK ELSE WHITE

EmptyBoard == [i \in 0..63 |-> NoPiece]

\* pieces[pos] = piece and pieces.erase(pos)
Put(p, pos, piece) == [p EXCEPT ![Idx(pos)] = piece]
Erase(p, pos) == [p EXCEPT ![Idx(pos)] = NoPiece]

-----------------------------------------------------------------------------
(* calculateMovesForPosition: the position description's fields.  A field  *)
(* is a sequence of one-character strings.                                 *)

DigitValue(ch) ==
    CASE ch = "0" -> 0 [] ch = "1" -> 1 [] ch = "2" -> 2 [] ch = "3" -> 3
      [] ch = "4" -> 4 [] ch = "5" -> 5 [] ch = "6" -> 6 [] ch = "7" -> 7
      [] ch = "8" -> 8 [] ch = "9" -> 9 [] OTHER -> -1

IsLower(ch) == ch \in {"p", "r", "n", "b", "q", "k", "a", "c", "d", "e", "f", "g", "h"}

ToLower(ch) ==
    CASE ch = "P" -> "p" [] ch = "R" -> "r" [] ch = "N" -> "n"
      [] ch = "B" -> "b" [] ch = "Q" -> "q" [] ch = "K" -> "k" [] OTHER -> ch

SymbolType(symbol) ==
    CASE symbol = "p" -> PAWN [] symbol = "r" -> ROOK [] symbol = "n" -> KNIGHT
      [] symbol = "b" -> BISHOP [] symbol = "q" -> QUEEN [] symbol = "k" -> KING
      [] OTHER -> "NONE"

\* by how much one turn of the loop over fenParts[0] advances col: a digit by
\* its value, a piece symbol by one, any other character not at all
ColumnsOf(c) ==
    IF c = "/" THEN 0
    ELSE IF DigitValue(c) >= 0 THEN DigitValue(c)
    ELSE IF SymbolType(ToLower(c)) = "NONE" THEN 0
    ELSE 1

\* row when the loop reads chars[i]: one more for every "/" before it
RowAt(chars, i) == Cardinality({j \in 1..(i - 1) : chars[j] = "/"})

\* col when the loop reads chars[i]: what the characters from chars[j] up to
\* chars[i - 1] add, chars[j] being the first character after the last "/"
RECURSIVE ColumnsFrom(_, _, _)
ColumnsFrom(chars, j, i) ==
    IF j >= i THEN 0 ELSE ColumnsOf(chars[j]) + ColumnsFrom(chars, j + 1, i)

ColAt(chars, i) ==
    LET slashes == {j \in 1..(i - 1) : chars[j] = "/"}
        last == IF slashes = {} THEN 0
                ELSE CHOOSE j \in slashes : \A k \in slashes : k <= j
    IN ColumnsFrom(chars, last + 1, i)

\* the loop over fenParts[0]: every piece symbol chars[i] sets
\* pieces[{col, row}], a later one replacing an earlier one on the same square
ParsePlacement(chars) ==
    [sq \in 0..63 |->
        LET setters == {i \in 1..Len(chars) :
                           /\ ColumnsOf(chars[i]) = 1
                           /\ DigitValue(chars[i]) < 0
                           /\ <<ColAt(chars, i), RowAt(chars, i)>> = PosOf(sq)}
            i == CHOOSE m \in setters : \A k \in setters : k <= m
        IN IF setters = {} THEN NoPiece
           ELSE ChessPiece(SymbolType(ToLower(chars[i])),
                           IF IsLower(chars[i]) THEN BLACK ELSE WHITE)]

ParseSideToMove(part) == IF part = <<"w">> THEN WHITE ELSE BLACK

ParseCastling(part) ==
    [whiteKingSide  |-> \E i \in 1..Len(part) : part[i] = "K",
     whiteQueenSide |-> \E i \in 1..Len(part) : part[i] = "Q",
     blackKingSide  |-> \E i \in 1..Len(part) : part[i] = "k",
     blackQueenSide |-> \E i \in 1..Len(part) : part[i] = "q"]

FileValue(ch) ==
    CASE ch = "a" -> 0 [] ch = "b" -> 1 [] ch = "c" -> 2 [] ch = "d" -> 3
      [] ch = "e" -> 4 [] ch = "f" -> 5 [] ch = "g" -> 6 [] ch = "h" -> 7

ParseEnPassant(part) ==
    IF part # <<"-">> THEN <<FileValue(part[1]), 8 - DigitValue(part[2])>> ELSE NoPos

-----------------------------------------------------------------------------
(* isSquareAttacked                                                        *)

knightDx == <<-2, -2, -1, -1, 1, 1, 2, 2>>
knightDy == <<-1, 1, -2, 2, -2, 2, -1, 1>>

\* Directions: N, NE, E, SE, S, SW, W, NW (dir 0..7 is index dir+1)
attackDx == <<0, 1, 1, 1, 0, -1, -1, -1>>
attackDy == <<-1, -1, 0, 1, 1, 1, 0, -1>>

\* the direction in which isSquareAttacked looks for the attacking pawn
AttackPawnDir(attackingColor) == IF attackingColor = WHITE THEN -1 ELSE 1

\* a ray loop without the "break" at the first piece met: any piece that
\* attacks along the ray counts, whatever stands between
RayAttackedThrough(p, x, y, dir, dist, attackingColor) ==
    \E d \in dist..7 :
        LET newX == x + attackDx[dir + 1] * d
            newY == y + attackDy[dir + 1] * d
        IN /\ OnBoard(newX, newY)
           /\ Has(p, newX, newY)
           /\ At(p, newX, newY).color = attackingColor
           /\ \/ At(p, newX, newY).type = KING /\ d = 1
              \/ At(p, newX, newY).type = QUEEN
              \/ At(p, newX, newY).type = ROOK /\ dir % 2 = 0
              \/ At(p, newX, newY).type = BISHOP /\ dir % 2 = 1

\* the inner ray loop: TRUE iff the first piece met from dist on attacks
RECURSIVE RayAttacked(_, _, _, _, _, _)
RayAttacked(p, x, y, dir, dist, attackingColor) ==
    LET newX == x + attackDx[dir + 1] * dist
        newY == y + attackDy[dir + 1] * dist
    IN IF dist >= 8 \/ ~OnBoard(newX, newY) THEN FALSE
       ELSE IF Has(p, newX, newY)
            THEN LET piece == At(p, newX, newY) IN
                 /\ piece.color = attackingColor
                 /\ \/ piece.type = KING /\ dist = 1
                    \/ piece.type = QUEEN
                    \/ piece.type = ROOK /\ dir % 2 = 0
                    \/ piece.type = BISHOP /\ dir % 2 = 1
            ELSE RayAttacked(p, x, y, dir, dist + 1, attackingColor)

\* "Check for pawn attacks"
PawnAttackReported(p, square, attackingColor) ==
    LET x == square[1]
        y == square[2]
        pawnAttackRow == y + AttackPawnDir(attackingColor)
    IN /\ pawnAttackRow >= 0 /\ pawnAttackRow < 8
       /\ \/ x > 0 /\ At(p, x - 1, pawnAttackRow) = ChessPiece(PAWN, attackingColor)
          \/ x < 7 /\ At(p, x + 1, pawnAttackRow) = ChessPiece(PAWN, attackingColor)

isSquareAttacked(p, square, attackingColor) ==
    LET x == square[1]
        y == square[2]
    IN \/ \E i \in 1..8 :
            LET newX == x + knightDx[i]
                newY == y + knightDy[i]
            IN /\ OnBoard(newX, newY)
               /\ At(p, newX, newY) = ChessPiece(KNIGHT, attackingColor)
       \/ PawnAttackReported(p, square, attackingColor)
       \/ \E dir \in 0..7 : RayAttacked(p, x, y, dir, 1, attackingColor)

\* the first king of kingColor in map order from entry i on, NoPos when
\* there is none
FindKing(p, kingColor, i) ==
    LET kings == {j \in i..63 : p[j] = ChessPiece(KING, kingColor)}
    IN IF kings = {} THEN NoPos
       ELSE PosOf(CHOOSE j \in kings : \A k \in kings : j <= k)

-----------------------------------------------------------------------------
(* getLegalMovesForPiece: pseudo-legal generation and the cache            *)

bishopDx == <<-1, -1, 1, 1>>
bishopDy == <<-1, 1, -1, 1>>
rookDx == <<0, 0, -1, 1>>
rookDy == <<-1, 1, 0, 0>>
queenDx == <<0, 0, -1, 1, -1, -1, 1, 1>>
queenDy == <<-1, 1, 0, 0, -1, 1, -1, 1>>
kingDx == <<0, 0, -1, 1, -1, -1, 1, 1>>
kingDy == <<-1, 1, 0, 0, -1, 1, -1, 1>>

\* the loop "for i = 1; i < 8" of one sliding direction
RECURSIVE SlideRay(_, _, _, _, _, _, _)
SlideRay(p, col, row, dx, dy, i, color) ==
    LET newCol == col + i * dx
        newRow == row + i * dy
    IN IF i >= 8 \/ ~OnBoard(newCol, newRow) THEN <<>>
       ELSE IF ~Has(p, newCol, newRow)
            THEN <<<<newCol, newRow>>>> \o SlideRay(p, col, row, dx, dy, i + 1, color)
       ELSE IF At(p, newCol, newRow).color # color THEN <<<<newCol, newRow>>>>
       ELSE <<>>

RECURSIVE SlideMoves(_, _, _, _, _, _, _)
SlideMoves(p, col, row, dxs, dys, dir, color) ==
    IF dir > Len(dxs) THEN <<>>
    ELSE SlideRay(p, col, row, dxs[dir], dys[dir], 1, color)
         \o SlideMoves(p, col, row, dxs, dys, dir + 1, color)

\* the one-step loops of the knight and the king
RECURSIVE StepMoves(_, _, _, _, _, _, _)
StepMoves(p, col, row, dxs, dys, i, color) ==
    IF i > Len(dxs) THEN <<>>
    ELSE LET newCol == col + dxs[i]
             newRow == row + dys[i]
         IN (IF OnBoard(newCol, newRow)
                /\ (~Has(p, newCol, newRow) \/ At(p, newCol, newRow).color # color)
             THEN <<<<newCol, newRow>>>> ELSE <<>>)
            \o StepMoves(p, col, row, dxs, dys, i + 1, color)

\* the en passant branch of one capture side (side is -1 or 1)
PawnEnPassant(p, col, row, newRow, side, color, ep) ==
    IF /\ ep[1] # -1 /\ ep[1] = col + side /\ ep[2] = newRow
       /\ At(p, col + side, row) = ChessPiece(PAWN, Opponent(color))
    THEN <<ep>> ELSE <<>>

PawnCapture(p, col, row, newRow, side, color, ep) ==
    (IF Has(p, col + side, newRow) /\ At(p, col + side, newRow).color # color
     THEN <<<<col + side, newRow>>>> ELSE <<>>)
    \o PawnEnPassant(p, col, row, newRow, side, color, ep)

\* a pawn generator without the two-square advance, which the counts of the
\* initial position tell apart from PawnMoves
PawnMovesSingleStep(p, col, row, color, ep) ==
    LET direction == IF color = WHITE THEN -1 ELSE 1
        newRow == row + direction
    IN IF newRow >= 0 /\ newRow < 8
       THEN (IF ~Has(p, col, newRow) THEN <<<<col, newRow>>>> ELSE <<>>)
            \o (IF col > 0 THEN PawnCapture(p, col, row, newRow, -1, color, ep) ELSE <<>>)
            \o (IF col < 7 THEN PawnCapture(p, col, row, newRow, 1, color, ep) ELSE <<>>)
       ELSE <<>>

PawnMoves(p, col, row, color, ep) ==
    LET direction == IF color = WHITE THEN -1 ELSE 1
        startRow == IF color = WHITE THEN 6 ELSE 1
        newRow == row + direction
        doubleRow == row + 2 * direction
    IN IF newRow >= 0 /\ newRow < 8
       THEN (IF ~Has(p, col, newRow)
             THEN <<<<col, newRow>>>>
                  \o (IF row = startRow /\ doubleRow >= 0 /\ doubleRow < 8
                         /\ ~Has(p, col, doubleRow)
                      THEN <<<<col, doubleRow>>>> ELSE <<>>)
             ELSE <<>>)
            \o (IF col > 0 THEN PawnCapture(p, col, row, newRow, -1, color, ep) ELSE <<>>)
            \o (IF col < 7 THEN PawnCapture(p, col, row, newRow, 1, color, ep) ELSE <<>>)
       ELSE <<>>

\* a castling generator without the queenside branch, which the counts of the
\* Kiwipete position tell apart from CastlingMoves
CastlingMovesKingsideOnly(p, col, row, color, cr) ==
    IF (color = WHITE /\ row = 7 /\ col = 4) \/ (color = BLACK /\ row = 0 /\ col = 4)
    THEN IF /\ (IF color = WHITE THEN cr.whiteKingSide ELSE cr.blackKingSide)
            /\ At(p, 7, row) = ChessPiece(ROOK, color)
            /\ ~Has(p, 5, row) /\ ~Has(p, 6, row)
         THEN <<<<col + 2, row>>>> ELSE <<>>
    ELSE <<>>

CastlingMoves(p, col, row, color, cr) ==
    IF (color = WHITE /\ row = 7 /\ col = 4) \/ (color = BLACK /\ row = 0 /\ col = 4)
    THEN LET canCastleKingside ==
                 IF color = WHITE THEN cr.whiteKingSide ELSE cr.blackKingSide
             canCastleQueenside ==
                 IF color = WHITE THEN cr.whiteQueenSide ELSE cr.blackQueenSide
         IN (IF /\ canCastleKingside
                /\ At(p, 7, row) = ChessPiece(ROOK, color)
                /\ ~Has(p, 5, row) /\ ~Has(p, 6, row)
             THEN <<<<col + 2, row>>>> ELSE <<>>)
            \o (IF /\ canCastleQueenside
                   /\ At(p, 0, row) = ChessPiece(ROOK, color)
                   /\ ~Has(p, 1, row) /\ ~Has(p, 2, row) /\ ~Has(p, 3, row)
                THEN <<<<col - 2, row>>>> ELSE <<>>)
    ELSE <<>>

\* the switch on piece.type
GenerateMoves(p, from, ep, cr) ==
    LET piece == p[Idx(from)]
        col == from[1]
        row == from[2]
    IN CASE piece.type = PAWN -> PawnMoves(p, col, row, piece.color, ep)
         [] piece.type = KNIGHT ->
                StepMoves(p, col, row, knightDx, knightDy, 1, piece.color)
         [] piece.type = BISHOP ->
                SlideMoves(p, col, row, bishopDx, bishopDy, 1, piece.color)
         [] piece.type = ROOK ->
                SlideMoves(p, col, row, rookDx, rookDy, 1, piece.color)
         [] piece.type = QUEEN ->
                SlideMoves(p, col, row, queenDx, queenDy, 1, piece.color)
         [] piece.type = KING ->
                StepMoves(p, col, row, kingDx, kingDy, 1, piece.color)
                \o CastlingMoves(p, col, row, piece.color, cr)

MoveGenKey(p, from, ep) == <<from, p[Idx(from)].type, p[Idx(from)].color, ep>>

\* whether the call reaches the cache at all
ReachesCache(p, from, currentTurn) ==
    p[Idx(from)] # NoPiece /\ p[Idx(from)].color = currentTurn

\* the vector getLegalMovesForPiece returns
getLegalMovesForPiece(p, from, currentTurn, ep, cr, cache) ==
    IF ~ReachesCache(p, from, currentTurn) THEN <<>>
    ELSE IF MoveGenKey(p, from, ep) \in DOMAIN cache
         THEN cache[MoveGenKey(p, from, ep)]
    ELSE GenerateMoves(p, from, ep, cr)

\* moveGenCache after the call
CacheAfterGen(p, from, currentTurn, ep, cr, cache) ==
    IF ~ReachesCache(p, from, currentTurn) \/ MoveGenKey(p, from, ep) \in DOMAIN cache
    THEN cache
    ELSE (MoveGenKey(p, from, ep) :> GenerateMoves(p, from, ep, cr)) @@ cache

EmptyCache == [k \in {} |-> <<>>]

\* getAllPiecesForColor
getAllPiecesForColor(p, color) ==
    LET all == [i \in 1..64 |-> PosOf(i - 1)]
        OfColor(pos) == p[Idx(pos)].color = color
    IN SelectSeq(all, OfColor)

-----------------------------------------------------------------------------
(* filterLegalMoves                                                        *)

\* the board on which filterLegalMoves tests a non-castling move
FilterTempPieces(p, from, to, movingPiece, isEnPassant) ==
    LET removed == IF isEnPassant THEN Erase(p, <<to[1], from[2]>>) ELSE p
    IN Erase(Put(removed, to, movingPiece), from)

KeepsMove(p, from, to, currentTurn, ep, kingPos, kingInCheck) ==
    LET movingPiece == p[Idx(from)]
        opponentColor == Opponent(currentTurn)
        isCastling == movingPiece.type = KING /\ Abs(to[1] - from[1]) = 2
        direction == IF to[1] > from[1] THEN 1 ELSE -1
        throughSquare == <<from[1] + direction, from[2]>>
        isEnPassant == movingPiece.type = PAWN /\ to = ep /\ from[1] # to[1]
        newKingPos == IF movingPiece.type = KING THEN to ELSE kingPos
    IN IF isCastling
       THEN /\ ~kingInCheck
            /\ ~isSquareAttacked(p, throughSquare, opponentColor)
            /\ ~isSquareAttacked(p, to, opponentColor)
       ELSE /\ isEnPassant =>
                 At(p, to[1], from[2]) = ChessPiece(PAWN, Opponent(movingPiece.color))
            /\ ~isSquareAttacked(FilterTempPieces(p, from, to, movingPiece, isEnPassant),
                                 newKingPos, opponentColor)

filterLegalMoves(p, from, moves, currentTurn, ep) ==
    LET kingPos == FindKing(p, currentTurn, 0)
        kingInCheck == isSquareAttacked(p, kingPos, Opponent(currentTurn))
        Keep(to) == KeepsMove(p, from, to, currentTurn, ep, kingPos, kingInCheck)
    IN IF kingPos[1] = -1 THEN <<>> ELSE SelectSeq(moves, Keep)

-----------------------------------------------------------------------------
(* make and unmake inside countMovesAtDepth, and the helpers they call     *)

updateCastlingRights(cr, from, piece) ==
    IF piece.type = KING
    THEN IF piece.color = WHITE
         THEN [cr EXCEPT !.whiteKingSide = FALSE, !.whiteQueenSide = FALSE]
         ELSE [cr EXCEPT !.blackKingSide = FALSE, !.blackQueenSide = FALSE]
    ELSE IF piece.type = ROOK
    THEN IF piece.color = WHITE
         THEN IF from = <<0, 7>> THEN [cr EXCEPT !.whiteQueenSide = FALSE]
              ELSE IF from = <<7, 7>> THEN [cr EXCEPT !.whiteKingSide = FALSE]
              ELSE cr
         ELSE IF from = <<0, 0>> THEN [cr EXCEPT !.blackQueenSide = FALSE]
              ELSE IF from = <<7, 0>> THEN [cr EXCEPT !.blackKingSide = FALSE]
              ELSE cr
    ELSE cr

updateCastlingRightsForCapture(cr, to, capturedPiece) ==
    IF capturedPiece.type = ROOK
    THEN IF capturedPiece.color = WHITE
         THEN IF to = <<0, 7>> THEN [cr EXCEPT !.whiteQueenSide = FALSE]
              ELSE IF to = <<7, 7>> THEN [cr EXCEPT !.whiteKingSide = FALSE]
              ELSE cr
         ELSE IF to = <<0, 0>> THEN [cr EXCEPT !.blackQueenSide = FALSE]
              ELSE IF to = <<7, 0>> THEN [cr EXCEPT !.blackKingSide = FALSE]
              ELSE cr
    ELSE cr

\* a calculateEnPassantTarget that gives the square the pawn lands on
calculateEnPassantTargetLanding(piece, from, to) ==
    IF /\ piece.type = PAWN
       /\ Abs(from[2] - to[2]) = 2
       /\ from[2] = (IF piece.color = WHITE THEN 6 ELSE 1)
    THEN <<from[1], to[2]>>
    ELSE NoPos

calculateEnPassantTarget(piece, from, to) ==
    IF /\ piece.type = PAWN
       /\ Abs(from[2] - to[2]) = 2
       /\ from[2] = (IF piece.color = WHITE THEN 6 ELSE 1)
    THEN <<from[1], (from[2] + to[2]) \div 2>>
    ELSE NoPos

\* ep is the value of the global enPassantTarget at the time of the call
isEnPassantCapture(piece, from, to, p, ep) ==
    IF \/ piece.type # PAWN
       \/ ep[1] = -1
       \/ ep[2] = -1
       \/ to # ep
       \/ from[1] = to[1]
    THEN FALSE
    ELSE At(p, to[1], from[2]) = ChessPiece(PAWN, Opponent(piece.color))

isCastlingMove(piece, from, to) == piece.type = KING /\ Abs(to[1] - from[1]) = 2

handleCastling(p, king, from, to) ==
    IF ~isCastlingMove(king, from, to) THEN p
    ELSE LET row == from[2]
             rookFrom == IF to[1] > from[1] THEN <<7, row>> ELSE <<0, row>>
             rookTo == IF to[1] > from[1] THEN <<to[1] - 1, row>> ELSE <<to[1] + 1, row>>
         IN IF Has(p, rookFrom[1], rookFrom[2])
            THEN Erase(Put(p, rookTo, p[Idx(rookFrom)]), rookFrom)
            ELSE p

\* what make reads as "the en passant target" when it asks isEnPassantCapture:
\* the global, which it has just overwritten with the new target
EnPassantTargetSeenByMake(oldEnPassantTarget, newEnPassantTarget) == newEnPassantTarget

\* castlingRights after the capture update, which runs before the rights are saved
RightsAfterCapture(cr, to, hadPiece, capturedPiece) ==
    IF hadPiece THEN updateCastlingRightsForCapture(cr, to, capturedPiece) ELSE cr

\* the loop body of countMovesAtDepth from "Remember captured piece" to the
\* castling rook move: the new map and globals, and the locals kept for the undo
MakeMove(p, cr, ep, from, to, movingPiece) ==
    LET hadPiece == Has(p, to[1], to[2])
        capturedPiece == p[Idx(to)]
        oldCastlingRights == RightsAfterCapture(cr, to, hadPiece, capturedPiece)
        newEnPassantTarget == calculateEnPassantTarget(movingPiece, from, to)
        isEnPassant == isEnPassantCapture(movingPiece, from, to, p,
                           EnPassantTargetSeenByMake(ep, newEnPassantTarget))
        capturedPawnPos == IF isEnPassant THEN <<to[1], from[2]>> ELSE NoPos
        capturedPawn == IF isEnPassant THEN p[Idx(capturedPawnPos)] ELSE NoPiece
        p1 == IF isEnPassant THEN Erase(p, capturedPawnPos) ELSE p
        p2 == Put(Erase(p1, from), to, movingPiece)
        p3 == IF movingPiece.type = KING /\ Abs(to[1] - from[1]) = 2
              THEN handleCastling(p2, movingPiece, from, to) ELSE p2
    IN [pieces |-> p3,
        castlingRights |-> updateCastlingRights(oldCastlingRights, from, movingPiece),
        enPassantTarget |-> newEnPassantTarget,
        undo |-> [to |-> to,
                  hadPiece |-> hadPiece,
                  capturedPiece |-> capturedPiece,
                  oldCastlingRights |-> oldCastlingRights,
                  oldEnPassantTarget |-> ep,
                  isEnPassant |-> isEnPassant,
                  capturedPawnPos |-> capturedPawnPos,
                  capturedPawn |-> capturedPawn]]

NoUndo ==
    [to |-> NoPos, hadPiece |-> FALSE, capturedPiece |-> NoPiece,
     oldCastlingRights |-> [whiteKingSide |-> FALSE, whiteQueenSide |-> FALSE,
                            blackKingSide |-> FALSE, blackQueenSide |-> FALSE],
     oldEnPassantTarget |-> NoPos, isEnPassant |-> FALSE,
     capturedPawnPos |-> NoPos, capturedPawn |-> NoPiece]

\* "Undo castling if needed"
UndoCastling(p, from, to, movingPiece) ==
    IF movingPiece.type = KING /\ Abs(to[1] - from[1]) = 2
    THEN LET rookTo == IF to[1] > from[1] THEN <<to[1] - 1, to[2]>> ELSE <<to[1] + 1, to[2]>>
             rookFrom == IF to[1] > from[1] THEN <<7, to[2]>> ELSE <<0, to[2]>>
         IN IF Has(p, rookTo[1], rookTo[2])
            THEN Erase(Put(p, rookFrom, p[Idx(rookTo)]), rookTo)
            ELSE p
    ELSE p

\* an undo that puts the moved piece back and leaves out "Restore captured
\* piece if any"
UnmakePiecesDropsCaptured(p, from, movingPiece, undo) ==
    UndoCastling(Put(Erase(p, undo.to), from, movingPiece), from, undo.to, movingPiece)

\* the loop body of countMovesAtDepth from "Undo the move" on: the map restored
UnmakePieces(p, from, movingPiece, undo) ==
    LET to == undo.to
        p1 == Put(Erase(p, to), from, movingPiece)
        p2 == IF undo.hadPiece THEN Put(p1, to, undo.capturedPiece) ELSE p1
        p3 == IF undo.isEnPassant /\ undo.capturedPawnPos[1] # -1
              THEN Put(p2, undo.capturedPawnPos, undo.capturedPawn) ELSE p2
    IN UndoCastling(p3, from, to, movingPiece)

-----------------------------------------------------------------------------
(* orderMoves and scoreMoveForOrdering                                     *)

pieceValues(type) ==
    CASE type = PAWN -> 100 [] type = ROOK -> 500 [] type = KNIGHT -> 320
      [] type = BISHOP -> 330 [] type = QUEEN -> 900 [] type = KING -> 20000

scoreMoveForOrdering(from, to, movingPiece, p, ep) ==
    LET capture == IF Has(p, to[1], to[2])
                   THEN pieceValues(p[Idx(to)].type) * 100
                        - pieceValues(movingPiece.type) + 10000
                   ELSE 0
        promotionRank == IF movingPiece.color = WHITE THEN 0 ELSE 7
        advancement == IF movingPiece.color = WHITE THEN 7 - to[2] ELSE to[2]
        pawn == IF movingPiece.type = PAWN
                THEN (IF to[2] = promotionRank THEN 15000 ELSE 0) + advancement * 10
                ELSE 0
        enPassant == IF movingPiece.type = PAWN /\ to = ep THEN 9500 ELSE 0
        castle == IF movingPiece.type = KING /\ Abs(to[1] - from[1]) = 2 THEN 5000 ELSE 0
        \* |3.5 - first| + |3.5 - second| is a whole number
        centerDistance == (Abs(7 - 2 * to[1]) + Abs(7 - 2 * to[2])) \div 2
        center == IF movingPiece.type # PAWN THEN (8 - centerDistance) * 5 ELSE 0
    IN capture + pawn + enPassant + castle + center

\* insertion of a scored move <<to, score>> into a list sorted by descending
\* score, after the moves of equal score
RECURSIVE InsertByScore(_, _)
InsertByScore(sorted, scored) ==
    IF sorted = <<>> THEN <<scored>>
    ELSE IF scored[2] > Head(sorted)[2] THEN <<scored>> \o sorted
    ELSE <<Head(sorted)>> \o InsertByScore(Tail(sorted), scored)

RECURSIVE SortByScore(_, _)
SortByScore(scoredMoves, n) ==
    IF n = 0 THEN <<>>
    ELSE InsertByScore(SortByScore(scoredMoves, n - 1), scoredMoves[n])

\* std::sort by descending score; moves of equal score keep their order, as
\* the insertion sort that std::sort runs on these short vectors leaves them
orderMoves(moves, from, movingPiece, p, ep) ==
    LET scoredMoves == [i \in 1..Len(moves) |->
                           <<moves[i], scoreMoveForOrdering(from, moves[i], movingPiece, p, ep)>>]
        sorted == SortByScore(scoredMoves, Len(moves))
    IN IF Len(moves) <= 1 THEN moves ELSE [i \in 1..Len(moves) |-> sorted[i][1]]

-----------------------------------------------------------------------------
(* The position descriptions given to calculateMovesForPosition.  maxDepth *)
(* caps the depth loop, which the program runs to depth 5.                 *)

Positions == <<
    [name |-> "initial",
     placement |-> <<"r", "n", "b", "q", "k", "b", "n", "r", "/", "p", "p", "p", "p", "p", "p", "p", "p", "/", "8", "/", "8", "/", "8", "/", "8", "/", "P", "P", "P", "P", "P", "P", "P", "P", "/", "R", "N", "B", "Q", "K", "B", "N", "R">>,
     side |-> <<"w">>,
     castling |-> <<"K", "Q", "k", "q">>,
     enPassant |-> <<"-">>,
     maxDepth |-> 3],
    [name |-> "kiwipete",
     placement |-> <<"r", "3", "k", "2", "r", "/", "p", "1", "p", "p", "q", "p", "b", "1", "/", "b", "n", "2", "p", "n", "p", "1", "/", "3", "P", "N", "3", "/", "1", "p", "2", "P", "3", "/", "2", "N", "2", "Q", "1", "p", "/", "P", "P", "P", "B", "B", "P", "P", "P", "/", "R", "3", "K", "2", "R">>,
     side |-> <<"w">>,
     castling |-> <<"K", "Q", "k", "q">>,
     enPassant |-> <<"-">>,
     maxDepth |-> 2],
    [name |-> "endgame",
     placement |-> <<"8", "/", "2", "p", "5", "/", "3", "p", "4", "/", "K", "P", "5", "r", "/", "1", "R", "3", "p", "1", "k", "/", "8", "/", "4", "P", "1", "P", "1", "/", "8">>,
     side |-> <<"w">>,
     castling |-> <<"-">>,
     enPassant |-> <<"-">>,
     maxDepth |-> 2],
    [name |-> "promotion",
     placement |-> <<"n", "1", "n", "5", "/", "P", "P", "P", "k", "4", "/", "8", "/", "8", "/", "8", "/", "8", "/", "4", "K", "p", "p", "p", "/", "5", "N", "1", "N">>,
     side |-> <<"b">>,
     castling |-> <<"-">>,
     enPassant |-> <<"-">>,
     maxDepth |-> 2],
    [name |-> "rooks",
     placement |-> <<"r", "3", "k", "2", "r", "/", "8", "/", "8", "/", "8", "/", "8", "/", "8", "/", "8", "/", "R", "3", "K", "2", "R">>,
     side |-> <<"w">>,
     castling |-> <<"K", "Q", "k", "q">>,
     enPassant |-> <<"-">>,
     maxDepth |-> 2],
    [name |-> "longDiagonal",
     placement |-> <<"r", "n", "b", "q", "k", "b", "n", "r", "/", "p", "p", "p", "p", "p", "p", "2", "/", "7", "p", "/", "6", "p", "1", "/", "8", "/", "1", "P", "6", "/", "P", "B", "P", "P", "P", "P", "P", "P", "/", "R", "N", "1", "Q", "K", "B", "N", "R">>,
     side |-> <<"w">>,
     castling |-> <<"K", "Q", "k", "q">>,
     enPassant |-> <<"-">>,
     maxDepth |-> 2],
    [name |-> "kingTakesRook",
     placement |-> <<"4", "k", "2", "r", "/", "6", "K", "1", "/", "8", "/", "8", "/", "8", "/", "8", "/", "8", "/", "8">>,
     side |-> <<"w">>,
     castling |-> <<"k">>,
     enPassant |-> <<"-">>,
     maxDepth |-> 4],
    [name |-> "kingAndPawn",
     placement |-> <<"8", "/", "8", "/", "8", "/", "8", "/", "8", "/", "7", "k", "/", "P", "7", "/", "7", "K">>,
     side |-> <<"w">>,
     castling |-> <<"-">>,
     enPassant |-> <<"-">>,
     maxDepth |-> 4],
    [name |-> "stalemate",
     placement |-> <<"k", "7", "/", "P", "7", "/", "K", "7", "/", "8", "/", "8", "/", "8", "/", "8", "/", "8">>,
     side |-> <<"b">>,
     castling |-> <<"-">>,
     enPassant |-> <<"-">>,
     maxDepth |-> 1],
    [name |-> "backRankMate",
     placement |-> <<"4", "R", "1", "k", "1", "/", "5", "p", "p", "p", "/", "8", "/", "8", "/", "8", "/", "8", "/", "8", "/", "6", "K", "1">>,
     side |-> <<"b">>,
     castling |-> <<"-">>,
     enPassant |-> <<"-">>,
     maxDepth |-> 1],
    [name |-> "castlingPastPawn",
     placement |-> <<"r", "3", "k", "2", "r", "/", "8", "/", "8", "/", "8", "/", "8", "/", "8", "/", "6", "p", "1", "/", "R", "3", "K", "2", "R">>,
     side |-> <<"w">>,
     castling |-> <<"K", "Q", "k", "q">>,
     enPassant |-> <<"-">>,
     maxDepth |-> 1],
    [name |-> "shortRank",
     placement |-> <<"4", "k", "3", "/", "8", "/", "8", "/", "8", "/", "8", "/", "8", "/", "7", "/", "4", "K", "3">>,
     side |-> <<"w">>,
     castling |-> <<"-">>,
     enPassant |-> <<"-">>,
     maxDepth |-> 1],
    [name |-> "unknownLetter",
     placement |-> <<"4", "k", "3", "/", "8", "/", "8", "/", "8", "/", "8", "/", "8", "/", "8", "/", "4", "K", "2", "x">>,
     side |-> <<"w">>,
     castling |-> <<"-">>,
     enPassant |-> <<"-">>,
     maxDepth |-> 1],
    [name |-> "noBlackKing",
     placement |-> <<"8", "/", "8", "/", "8", "/", "8", "/", "8", "/", "8", "/", "8", "/", "4", "K", "3">>,
     side |-> <<"w">>,
     castling |-> <<"-">>,
     enPassant |-> <<"-">>,
     maxDepth |-> 1]
>>

-----------------------------------------------------------------------------
(* State                                                                   *)

VARIABLES
    fen,                    \* index in Positions of the description given
    numThreads,             \* std::thread::hardware_concurrency()
    pc,                     \* where calculateMovesForPosition stands
    depth,                  \* its loop variable
    pieces,                 \* its map
    sideToMove,
    originalCastlingRights,
    totalNodes,             \* depth -> the count it printed for that depth
    enPassantTarget,        \* the three file-scope globals
    castlingRights,
    moveGenCache,
    board,                  \* thread -> the map its countMovesAtDepth calls work on
    stack,                  \* thread -> the frames of its countMovesAtDepth calls
    worker,                 \* thread -> the locals of its processRootMoves
    raced,                  \* steps taken so far while two workers were running
    clean,                  \* search_clean.cpp: the locals of its countMovesAtDepth
    game                    \* the objects of the interactive game

vars == <<fen, numThreads, pc, depth, pieces, sideToMove, originalCastlingRights,
          totalNodes, enPassantTarget, castlingRights, moveGenCache, board, stack,
          worker, raced, clean, game>>

\* the state of the other translation units, which search.cpp leaves alone
besideSearch == <<clean, game>>

\* the most hardware threads the model gives the program
MaxHardwareThreads == 2

\* the most steps the model follows while more than one worker is running
MaxRacedSteps == 40

\* thread 0 runs calculateMovesForPosition, the others run processRootMoves
Threads == 0..MaxHardwareThreads
Workers == 1..MaxHardwareThreads

AllRights ==
    [whiteKingSide |-> TRUE, whiteQueenSide |-> TRUE,
     blackKingSide |-> TRUE, blackQueenSide |-> TRUE]

IdleWorker ==
    [pc |-> "idle", depth |-> 0, currentTurn |-> WHITE, rootMoves |-> <<>>, ri |-> 1,
     threadPieces |-> EmptyBoard, localEnPassantTarget |-> NoPos,
     localCastlingRights |-> AllRights, subTotal |-> 0,
     from |-> NoPos, movingPiece |-> NoPiece, legalMoves |-> <<>>, mi |-> 1,
     to |-> NoPos, hadPiece |-> FALSE, capturedPiece |-> NoPiece,
     tempBoard |-> EmptyBoard, promotions |-> <<>>]

\* no window is open
IdleGame ==
    [open |-> FALSE, pieces |-> EmptyBoard, currentTurn |-> WHITE, gameState |-> "ACTIVE",
     enPassantAvailable |-> FALSE, enPassantTarget |-> NoPos,
     whiteKingPosition |-> NoPos, blackKingPosition |-> NoPos,
     halfMoveClock |-> 0, positionHistory |-> <<>>,
     promotionSquare |-> NoPos, events |-> <<>>,
     selectedSquare |-> NoPos, legalMoves |-> {}, awaitingPromotion |-> FALSE,
     whiteKingMoved |-> FALSE, blackKingMoved |-> FALSE,
     whiteKingsideRookMoved |-> FALSE, whiteQueensideRookMoved |-> FALSE,
     blackKingsideRookMoved |-> FALSE, blackQueensideRookMoved |-> FALSE]

\* search_clean.cpp's countMovesAtDepth is not running
IdleClean ==
    [pc |-> "idle", playerPieces |-> <<>>, pi |-> 1, from |-> NoPos,
     legalMoves |-> <<>>, mi |-> 1, totalMoves |-> 0, counts |-> [k \in {} |-> 0]]

NoBefore == [pieces |-> EmptyBoard, castlingRights |-> AllRights, enPassantTarget |-> NoPos]

\* a countMovesAtDepth without its base case: depth <= 0 counts nothing
NewFrameNoBaseCase(d, p, currentTurn) ==
    [depth |-> d,
     currentTurn |-> currentTurn,
     totalMoves |-> 0,
     playerPieces |-> IF d <= 0 THEN <<>> ELSE getAllPiecesForColor(p, currentTurn),
     pi |-> 1,
     from |-> NoPos,
     movingPiece |-> NoPiece,
     legalMoves |-> <<>>,
     mi |-> 1,
     pc |-> "piece",
     undo |-> NoUndo,
     before |-> NoBefore]

\* a countMovesAtDepth call that has just cleared the cache and listed the
\* mover's pieces; with depth <= 0 it has its result, 1, at once
NewFrame(d, p, currentTurn) ==
    [depth |-> d,
     currentTurn |-> currentTurn,
     totalMoves |-> IF d <= 0 THEN 1 ELSE 0,
     playerPieces |-> IF d <= 0 THEN <<>> ELSE getAllPiecesForColor(p, currentTurn),
     pi |-> 1,
     from |-> NoPos,
     movingPiece |-> NoPiece,
     legalMoves |-> <<>>,
     mi |-> 1,
     pc |-> "piece",
     undo |-> NoUndo,
     \* not a local of the code: the map and the globals as they were when
     \* the move in progress was about to be made
     before |-> NoBefore]

\* the workers whose std::async task has been launched and has not returned
Running == {w \in Workers : worker[w].pc \notin {"idle", "done"}}

\* a step of a thread: while workers run side by side the model follows them
\* for MaxRacedSteps steps
Step ==
    /\ Cardinality(Running) > 1 => raced < MaxRacedSteps
    /\ raced' = IF Cardinality(Running) > 1 THEN raced + 1 ELSE raced
    /\ UNCHANGED besideSearch

Top(t) == stack[t][Len(stack[t])]
SetTop(t, f) == [stack EXCEPT ![t] = [@ EXCEPT ![Len(@)] = f]]
Finished(f) == f.pc = "piece" /\ f.pi > Len(f.playerPieces)

\* the state before calculateMovesForPosition is called
Start(cases) ==
    /\ fen \in cases
    /\ numThreads \in 1..MaxHardwareThreads
    /\ pc = "parse"
    /\ depth = 0
    /\ pieces = EmptyBoard
    /\ sideToMove = WHITE
    /\ originalCastlingRights = AllRights
    /\ totalNodes = [d \in {} |-> 0]
    /\ enPassantTarget = NoPos
    /\ castlingRights = AllRights
    /\ moveGenCache = EmptyCache
    /\ board = [t \in Threads |-> EmptyBoard]
    /\ stack = [t \in Threads |-> <<>>]
    /\ worker = [t \in Workers |-> IdleWorker]
    /\ raced = 0
    /\ clean = IdleClean
    /\ game = IdleGame

\* the descriptions whose depth loop stays within countMovesAtDepth
Init == Start({i \in 1..Len(Positions) : Positions[i].maxDepth <= 3})

\* the descriptions whose depth loop reaches the workers of countMovesParallel
InitParallel == Start({i \in 1..Len(Positions) : Positions[i].maxDepth > 3})

-----------------------------------------------------------------------------
(* calculateMovesForPosition                                               *)

\* from the top of the function to the depth loop
ParseFEN ==
    /\ pc = "parse"
    /\ pieces' = ParsePlacement(Positions[fen].placement)
    /\ sideToMove' = ParseSideToMove(Positions[fen].side)
    /\ castlingRights' = ParseCastling(Positions[fen].castling)
    /\ enPassantTarget' = ParseEnPassant(Positions[fen].enPassant)
    /\ depth' = 1
    /\ pc' = "loop"
    /\ UNCHANGED <<fen, numThreads, originalCastlingRights, totalNodes, moveGenCache,
                   board, stack, worker>>
    /\ UNCHANGED <<raced, besideSearch>>

\* countMovesParallel is called, and it runs its workers
UsesWorkers(d) == d > 2 /\ numThreads > 1 /\ d > 3

\* one turn of the depth loop up to the entry of countMovesAtDepth, called
\* directly or by countMovesParallel on its copy of the map
StartSingle ==
    /\ pc = "loop"
    /\ ~UsesWorkers(depth)
    /\ originalCastlingRights' = castlingRights
    /\ moveGenCache' = EmptyCache
    /\ board' = [board EXCEPT ![0] = pieces]
    /\ stack' = [stack EXCEPT ![0] = <<NewFrame(depth, pieces, sideToMove)>>]
    /\ pc' = "single"
    /\ UNCHANGED <<fen, numThreads, depth, pieces, sideToMove, totalNodes,
                   enPassantTarget, castlingRights, worker>>
    /\ UNCHANGED <<raced, besideSearch>>

\* the call is over: the rest of the loop's turn
FinishSingle ==
    /\ pc = "single"
    /\ Len(stack[0]) = 1
    /\ Finished(Top(0))
    /\ totalNodes' = (depth :> Top(0).totalMoves) @@ totalNodes
    /\ pieces' = IF depth > 2 /\ numThreads > 1 THEN pieces ELSE board[0]
    /\ castlingRights' = originalCastlingRights
    /\ stack' = [stack EXCEPT ![0] = <<>>]
    /\ depth' = depth + 1
    /\ pc' = IF depth + 1 > Positions[fen].maxDepth THEN "done" ELSE "loop"
    /\ UNCHANGED <<fen, numThreads, sideToMove, originalCastlingRights,
                   enPassantTarget, moveGenCache, board, worker>>
    /\ UNCHANGED <<raced, besideSearch>>

-----------------------------------------------------------------------------
(* countMovesAtDepth, run by thread t on board[t]                          *)

\* one turn of the loop over playerPieces, up to the loop over legalMoves
GenPiece(t) ==
    /\ Step
    /\ stack[t] # <<>>
    /\ Top(t).pc = "piece"
    /\ Top(t).pi <= Len(Top(t).playerPieces)
    /\ LET f == Top(t)
           from == f.playerPieces[f.pi]
           pseudoLegalMoves == getLegalMovesForPiece(board[t], from, f.currentTurn,
                                   enPassantTarget, castlingRights, moveGenCache)
           legalMoves == filterLegalMoves(board[t], from, pseudoLegalMoves,
                                          f.currentTurn, enPassantTarget)
           movingPiece == board[t][Idx(from)]
       IN /\ moveGenCache' = CacheAfterGen(board[t], from, f.currentTurn,
                                 enPassantTarget, castlingRights, moveGenCache)
          /\ stack' = SetTop(t,
                IF legalMoves = <<>>
                THEN [f EXCEPT !.pi = @ + 1]
                ELSE [f EXCEPT !.from = from,
                               !.movingPiece = movingPiece,
                               !.legalMoves =
                                   IF f.depth > 2
                                   THEN orderMoves(legalMoves, from, movingPiece,
                                                   board[t], enPassantTarget)
                                   ELSE legalMoves,
                               !.mi = 1,
                               !.pc = "move"])
    /\ UNCHANGED <<fen, numThreads, pc, depth, pieces, sideToMove,
                   originalCastlingRights, totalNodes, enPassantTarget,
                   castlingRights, board, worker>>

\* one turn of the loop over legalMoves, up to the castling rook move
Make(t) ==
    /\ Step
    /\ stack[t] # <<>>
    /\ Top(t).pc = "move"
    /\ LET f == Top(t)
           made == MakeMove(board[t], castlingRights, enPassantTarget,
                            f.from, f.legalMoves[f.mi], f.movingPiece)
       IN /\ board' = [board EXCEPT ![t] = made.pieces]
          /\ castlingRights' = made.castlingRights
          /\ enPassantTarget' = made.enPassantTarget
          /\ stack' = SetTop(t, [f EXCEPT !.pc = "made",
                                          !.undo = made.undo,
                                          !.before = [pieces |-> board[t],
                                                      castlingRights |-> castlingRights,
                                                      enPassantTarget |-> enPassantTarget]])
    /\ UNCHANGED <<fen, numThreads, pc, depth, pieces, sideToMove,
                   originalCastlingRights, totalNodes, moveGenCache, worker>>

\* frame f after its move in progress was undone, count added to its total
\* (locals that are dead from here on are set back to their first values)
AfterUnmake(f, count) ==
    LET more == f.mi < Len(f.legalMoves)
    IN [f EXCEPT !.totalMoves = @ + count,
                 !.mi = IF more THEN f.mi + 1 ELSE 1,
                 !.pi = IF more THEN f.pi ELSE f.pi + 1,
                 !.pc = IF more THEN "move" ELSE "piece",
                 !.from = IF more THEN @ ELSE NoPos,
                 !.movingPiece = IF more THEN @ ELSE NoPiece,
                 !.legalMoves = IF more THEN @ ELSE <<>>,
                 !.undo = NoUndo,
                 !.before = NoBefore]

\* depth 1: the move is counted and undone
CountLeaf(t) ==
    /\ Step
    /\ stack[t] # <<>>
    /\ Top(t).pc = "made"
    /\ Top(t).depth = 1
    /\ LET f == Top(t)
       IN /\ board' = [board EXCEPT ![t] =
                          UnmakePieces(board[t], f.from, f.movingPiece, f.undo)]
          /\ enPassantTarget' = f.undo.oldEnPassantTarget
          /\ castlingRights' = f.undo.oldCastlingRights
          /\ stack' = SetTop(t, AfterUnmake(f, 1))
    /\ UNCHANGED <<fen, numThreads, pc, depth, pieces, sideToMove,
                   originalCastlingRights, totalNodes, moveGenCache, worker>>

\* deeper: the recursive call, up to its list of the mover's pieces
Recurse(t) ==
    /\ Step
    /\ stack[t] # <<>>
    /\ Top(t).pc = "made"
    /\ Top(t).depth # 1
    /\ moveGenCache' = EmptyCache
    /\ stack' = [stack EXCEPT ![t] =
                    Append(@, NewFrame(Top(t).depth - 1, board[t],
                                       Opponent(Top(t).currentTurn)))]
    /\ UNCHANGED <<fen, numThreads, pc, depth, pieces, sideToMove,
                   originalCastlingRights, totalNodes, enPassantTarget,
                   castlingRights, board, worker>>

\* the recursive call returns: its count is added and the move is undone
Return(t) ==
    /\ Step
    /\ Len(stack[t]) >= 2
    /\ Finished(Top(t))
    /\ LET f == stack[t][Len(stack[t]) - 1]
       IN /\ board' = [board EXCEPT ![t] =
                          UnmakePieces(board[t], f.from, f.movingPiece, f.undo)]
          /\ enPassantTarget' = f.undo.oldEnPassantTarget
          /\ castlingRights' = f.undo.oldCastlingRights
          /\ stack' = [stack EXCEPT ![t] =
                          Append(SubSeq(@, 1, Len(@) - 2), AfterUnmake(f, Top(t).totalMoves))]
    /\ UNCHANGED <<fen, numThreads, pc, depth, pieces, sideToMove,
                   originalCastlingRights, totalNodes, moveGenCache, worker>>

Next ==
    \/ ParseFEN
    \/ StartSingle
    \/ FinishSingle
    \/ GenPiece(0)
    \/ Make(0)
    \/ CountLeaf(0)
    \/ Recurse(0)
    \/ Return(0)

Spec == Init /\ [][Next]_vars

-----------------------------------------------------------------------------
(* countMovesAtDepth called by a depth loop that may start at 0            *)

\* the highest depth at which the loop starts
MaxFirstDepth == 1

CallCases == {i \in 1..Len(Positions) : Positions[i].maxDepth # 3}

\* the description is parsed and the loop is about to make its first call
InitCall ==
    /\ fen \in CallCases
    /\ numThreads \in 1..MaxHardwareThreads
    /\ pc = "loop"
    /\ depth \in 0..MaxFirstDepth
    /\ pieces = ParsePlacement(Positions[fen].placement)
    /\ sideToMove = ParseSideToMove(Positions[fen].side)
    /\ originalCastlingRights = AllRights
    /\ totalNodes = [d \in {} |-> 0]
    /\ enPassantTarget = ParseEnPassant(Positions[fen].enPassant)
    /\ castlingRights = ParseCastling(Positions[fen].castling)
    /\ moveGenCache = EmptyCache
    /\ board = [t \in Threads |-> EmptyBoard]
    /\ stack = [t \in Threads |-> <<>>]
    /\ worker = [t \in Workers |-> IdleWorker]
    /\ raced = 0
    /\ clean = IdleClean
    /\ game = IdleGame

NextCall ==
    \/ StartSingle
    \/ FinishSingle
    \/ GenPiece(0)
    \/ Make(0)
    \/ CountLeaf(0)
    \/ Recurse(0)
    \/ Return(0)

SpecCall == InitCall /\ [][NextCall]_vars

-----------------------------------------------------------------------------
(* countMovesParallel with its workers (depth > 3)                         *)

Min(a, b) == IF a < b THEN a ELSE b

\* numThreads as countMovesParallel caps it
CappedThreads(d) ==
    LET n == Min(IF numThreads = 0 THEN 4 ELSE numThreads, 16)
    IN IF d <= 5 THEN Min(n, 8) ELSE n

\* the cache after the loop that counts each piece's legal moves
RECURSIVE CacheAfterCounting(_, _, _, _, _, _, _)
CacheAfterCounting(p, playerPieces, i, currentTurn, ep, cr, cache) ==
    IF i > Len(playerPieces) THEN cache
    ELSE CacheAfterCounting(p, playerPieces, i + 1, currentTurn, ep, cr,
             CacheAfterGen(p, playerPieces[i], currentTurn, ep, cr, cache))

\* piecesWithMoveCount: <<pos, legalMoves.size()>> for each piece, each count
\* taken with the cache as the pieces before left it
piecesWithMoveCount(p, playerPieces, currentTurn, ep, cr, cache) ==
    [i \in 1..Len(playerPieces) |->
        LET c == CacheAfterCounting(p, SubSeq(playerPieces, 1, i - 1), 1,
                                    currentTurn, ep, cr, cache)
            moves == getLegalMovesForPiece(p, playerPieces[i], currentTurn, ep, cr, c)
        IN <<playerPieces[i],
             Len(filterLegalMoves(p, playerPieces[i], moves, currentTurn, ep))>>]

\* threadAssignments[k] (k from 0): every n-th piece of the sorted list
threadAssignments(sorted, k, n) ==
    LET picked == SelectSeq([i \in 1..Len(sorted) |-> <<i, sorted[i][1]>>],
                            LAMBDA e : (e[1] - 1) % n = k)
    IN [i \in 1..Len(picked) |-> picked[i][2]]

\* the depth loop's turn up to the launch of the workers
StartParallel ==
    /\ pc = "loop"
    /\ UsesWorkers(depth)
    /\ originalCastlingRights' = castlingRights
    /\ LET playerPieces == getAllPiecesForColor(pieces, sideToMove)
           counted == piecesWithMoveCount(pieces, playerPieces, sideToMove,
                          enPassantTarget, castlingRights, moveGenCache)
           sorted == SortByScore(counted, Len(counted))
           n == CappedThreads(depth)
       IN /\ moveGenCache' = CacheAfterCounting(pieces, playerPieces, 1, sideToMove,
                                 enPassantTarget, castlingRights, moveGenCache)
          /\ worker' = [w \in Workers |->
                 IF w <= n /\ threadAssignments(sorted, w - 1, n) # <<>>
                 THEN [IdleWorker EXCEPT !.pc = "start",
                                         !.depth = depth,
                                         !.currentTurn = sideToMove,
                                         !.rootMoves = threadAssignments(sorted, w - 1, n)]
                 ELSE IdleWorker]
    /\ pc' = "parallel"
    /\ UNCHANGED <<fen, numThreads, depth, pieces, sideToMove, totalNodes,
                   enPassantTarget, castlingRights, board, stack>>
    /\ UNCHANGED <<raced, besideSearch>>

\* processRootMoves up to its loop: the worker's copies
WorkerStart(w) ==
    /\ Step
    /\ worker[w].pc = "start"
    /\ worker' = [worker EXCEPT ![w] =
                     [@ EXCEPT !.pc = "piece",
                               !.threadPieces = pieces,
                               !.localEnPassantTarget = enPassantTarget,
                               !.localCastlingRights = castlingRights]]
    /\ UNCHANGED <<fen, numThreads, pc, depth, pieces, sideToMove,
                   originalCastlingRights, totalNodes, enPassantTarget,
                   castlingRights, moveGenCache, board, stack>>

\* one turn of the loop over rootMoves, up to the loop over legalMoves
WorkerGenPiece(w) ==
    /\ Step
    /\ worker[w].pc = "piece"
    /\ worker[w].ri <= Len(worker[w].rootMoves)
    /\ LET k == worker[w]
           from == k.rootMoves[k.ri]
           pseudoLegalMoves == getLegalMovesForPiece(k.threadPieces, from, k.currentTurn,
                                   enPassantTarget, castlingRights, moveGenCache)
           legalMoves == filterLegalMoves(k.threadPieces, from, pseudoLegalMoves,
                                          k.currentTurn, enPassantTarget)
           movingPiece == k.threadPieces[Idx(from)]
       IN /\ moveGenCache' = CacheAfterGen(k.threadPieces, from, k.currentTurn,
                                 enPassantTarget, castlingRights, moveGenCache)
          /\ worker' = [worker EXCEPT ![w] =
                IF legalMoves = <<>>
                THEN [k EXCEPT !.ri = @ + 1]
                ELSE [k EXCEPT !.from = from,
                               !.movingPiece = movingPiece,
                               !.legalMoves = orderMoves(legalMoves, from, movingPiece,
                                                  k.threadPieces, enPassantTarget),
                               !.mi = 1,
                               !.pc = "move"]]
    /\ UNCHANGED <<fen, numThreads, pc, depth, pieces, sideToMove,
                   originalCastlingRights, totalNodes, enPassantTarget,
                   castlingRights, board, stack>>

\* the worker's local castling rights after a root move
RootCastlingRights(cr, from, to, movingPiece, hadPiece, capturedPiece) ==
    LET moved == updateCastlingRights(cr, from, movingPiece)
    IN IF hadPiece THEN updateCastlingRightsForCapture(moved, to, capturedPiece)
       ELSE moved

\* tempBoard after a root move: the en passant pawn removed, the castling
\* rook moved, the piece moved
RootTempBoard(p, from, to, movingPiece, oldEnPassantTarget) ==
    LET capturedPawnPos == <<to[1], from[2]>>
        isEnPassant == /\ movingPiece.type = PAWN
                       /\ to = oldEnPassantTarget
                       /\ from[1] # to[1]
                       /\ oldEnPassantTarget[1] # -1
        p1 == IF isEnPassant
                 /\ p[Idx(capturedPawnPos)] = ChessPiece(PAWN, Opponent(movingPiece.color))
              THEN Erase(p, capturedPawnPos) ELSE p
        isCastling == movingPiece.type = KING /\ Abs(to[1] - from[1]) = 2
        rookFrom == IF to[1] > from[1] THEN <<7, from[2]>> ELSE <<0, from[2]>>
        rookTo == IF to[1] > from[1] THEN <<5, from[2]>> ELSE <<3, from[2]>>
        p2 == IF isCastling /\ Has(p1, rookFrom[1], rookFrom[2])
              THEN Erase(Put(p1, rookTo, p1[Idx(rookFrom)]), rookFrom) ELSE p1
    IN Erase(Put(p2, to, movingPiece), from)

\* the promotion choices a root move is counted with (none: no promotion)
RootPromotions(movingPiece, to) ==
    IF movingPiece.type = PAWN /\ to[2] = (IF movingPiece.color = WHITE THEN 0 ELSE 7)
    THEN <<QUEEN, ROOK, BISHOP, KNIGHT>> ELSE <<>>

promotionBoard(tempBoard, to, promType) ==
    Put(tempBoard, to, [tempBoard[Idx(to)] EXCEPT !.type = promType])

\* one turn of the loop over legalMoves, up to the entry of the first
\* countMovesAtDepth call for the move
WorkerMake(w) ==
    /\ Step
    /\ worker[w].pc = "move"
    /\ LET k == worker[w]
           to == k.legalMoves[k.mi]
           hadPiece == Has(k.threadPieces, to[1], to[2])
           capturedPiece == k.threadPieces[Idx(to)]
           tempBoard == RootTempBoard(k.threadPieces, k.from, to, k.movingPiece,
                                      k.localEnPassantTarget)
           promotions == RootPromotions(k.movingPiece, to)
           called == IF promotions = <<>> THEN tempBoard
                     ELSE promotionBoard(tempBoard, to, Head(promotions))
       IN /\ worker' = [worker EXCEPT ![w] =
                 [k EXCEPT !.pc = "call",
                           !.to = to,
                           !.hadPiece = hadPiece,
                           !.capturedPiece = capturedPiece,
                           !.localCastlingRights =
                               RootCastlingRights(@, k.from, to, k.movingPiece,
                                                  hadPiece, capturedPiece),
                           !.localEnPassantTarget =
                               calculateEnPassantTarget(k.movingPiece, k.from, to),
                           !.tempBoard = tempBoard,
                           !.promotions = IF promotions = <<>> THEN <<>> ELSE Tail(promotions)]]
          /\ board' = [board EXCEPT ![w] = called]
          /\ stack' = [stack EXCEPT ![w] =
                          <<NewFrame(k.depth - 1, called, Opponent(k.currentTurn))>>]
          /\ moveGenCache' = EmptyCache
    /\ UNCHANGED <<fen, numThreads, pc, depth, pieces, sideToMove,
                   originalCastlingRights, totalNodes, enPassantTarget, castlingRights>>

\* a countMovesAtDepth call of the worker returns: the next promotion choice
\* is counted, or the loops go on
WorkerReturn(w) ==
    /\ Step
    /\ worker[w].pc = "call"
    /\ Len(stack[w]) = 1
    /\ Finished(Top(w))
    /\ LET k == worker[w]
           more == k.mi < Len(k.legalMoves)
       IN IF k.promotions # <<>>
          THEN /\ worker' = [worker EXCEPT ![w] =
                      [k EXCEPT !.subTotal = @ + Top(w).totalMoves,
                                !.promotions = Tail(@)]]
               /\ board' = [board EXCEPT ![w] =
                      promotionBoard(k.tempBoard, k.to, Head(k.promotions))]
               /\ stack' = [stack EXCEPT ![w] =
                      <<NewFrame(k.depth - 1,
                                 promotionBoard(k.tempBoard, k.to, Head(k.promotions)),
                                 Opponent(k.currentTurn))>>]
               /\ moveGenCache' = EmptyCache
          ELSE /\ worker' = [worker EXCEPT ![w] =
                      [k EXCEPT !.subTotal = @ + Top(w).totalMoves,
                                !.mi = IF more THEN k.mi + 1 ELSE 1,
                                !.ri = IF more THEN k.ri ELSE k.ri + 1,
                                !.pc = IF more THEN "move" ELSE "piece",
                                !.from = IF more THEN @ ELSE NoPos,
                                !.movingPiece = IF more THEN @ ELSE NoPiece,
                                !.legalMoves = IF more THEN @ ELSE <<>>,
                                !.to = NoPos,
                                !.hadPiece = FALSE,
                                !.capturedPiece = NoPiece,
                                !.tempBoard = EmptyBoard]]
               /\ stack' = [stack EXCEPT ![w] = <<>>]
               /\ board' = [board EXCEPT ![w] = EmptyBoard]
               /\ UNCHANGED moveGenCache
    /\ UNCHANGED <<fen, numThreads, pc, depth, pieces, sideToMove,
                   originalCastlingRights, totalNodes, enPassantTarget, castlingRights>>

\* processRootMoves returns subTotal
WorkerFinish(w) ==
    /\ Step
    /\ worker[w].pc = "piece"
    /\ worker[w].ri > Len(worker[w].rootMoves)
    /\ worker' = [worker EXCEPT ![w] =
                     [IdleWorker EXCEPT !.pc = "done", !.subTotal = worker[w].subTotal]]
    /\ UNCHANGED <<fen, numThreads, pc, depth, pieces, sideToMove,
                   originalCastlingRights, totalNodes, enPassantTarget,
                   castlingRights, moveGenCache, board, stack>>

RECURSIVE SumSubTotals(_)
SumSubTotals(w) == IF w = 0 THEN 0 ELSE worker[w].subTotal + SumSubTotals(w - 1)

\* every future is ready: countMovesParallel returns the sum, and the depth
\* loop finishes its turn
Join ==
    /\ pc = "parallel"
    /\ \A w \in Workers : worker[w].pc \in {"idle", "done"}
    /\ totalNodes' = (depth :> SumSubTotals(MaxHardwareThreads)) @@ totalNodes
    /\ castlingRights' = originalCastlingRights
    /\ worker' = [w \in Workers |-> IdleWorker]
    /\ depth' = depth + 1
    /\ pc' = IF depth + 1 > Positions[fen].maxDepth THEN "done" ELSE "loop"
    /\ UNCHANGED <<fen, numThreads, pieces, sideToMove, originalCastlingRights,
                   enPassantTarget, moveGenCache, board, stack>>
    /\ raced' = 0
    /\ UNCHANGED besideSearch

NextParallel ==
    \/ ParseFEN
    \/ StartSingle
    \/ FinishSingle
    \/ StartParallel
    \/ Join
    \/ \E t \in Threads :
          \/ GenPiece(t)
          \/ Make(t)
          \/ CountLeaf(t)
          \/ Recurse(t)
          \/ Return(t)
    \/ \E w \in Workers :
          \/ WorkerStart(w)
          \/ WorkerGenPiece(w)
          \/ WorkerMake(w)
          \/ WorkerReturn(w)
          \/ WorkerFinish(w)

SpecParallel == InitParallel /\ [][NextParallel]_vars

-----------------------------------------------------------------------------
(* search_clean.cpp: countMovesAtDepth at depth 1, which counts each       *)
(* piece's legal moves without making them, and next to it the loop the    *)
(* function runs at the other depths, which makes each move and calls      *)
(* itself, run here at depth 1 so that its calls are the depth 0 calls.    *)
(* The file's calculateMovesForPosition, filterLegalMoves and              *)
(* isSquareAttacked are those of search.cpp, and so is its move            *)
(* generation when there is no en passant target.                          *)

\* the descriptions without en passant target
CleanCases == {i \in 1..Len(Positions) : Positions[i].enPassant = <<"-">>}

InitClean == Start(CleanCases)

searchVars == <<fen, numThreads, depth, sideToMove, originalCastlingRights, totalNodes,
                board, stack, worker, raced, game>>

\* the legal moves of the piece the loop of countMovesAtDepth has come to
CleanLegalMoves ==
    LET from == clean.playerPieces[clean.pi]
    IN filterLegalMoves(pieces, from,
           getLegalMovesForPiece(pieces, from, sideToMove, enPassantTarget,
                                 castlingRights, moveGenCache),
           sideToMove, enPassantTarget)

\* countMovesAtDepth(1, pieces, sideToMove) is entered
CleanEnterBulk ==
    /\ pc = "loop"
    /\ clean.pc = "idle"
    /\ moveGenCache' = EmptyCache
    /\ clean' = [clean EXCEPT !.pc = "bulk",
                              !.playerPieces = getAllPiecesForColor(pieces, sideToMove),
                              !.pi = 1,
                              !.totalMoves = 0]
    /\ pc' = "clean"
    /\ UNCHANGED <<pieces, enPassantTarget, castlingRights>>
    /\ UNCHANGED searchVars

\* one turn of the loop under "if (depth == 1)"
CleanBulkPiece ==
    /\ clean.pc = "bulk"
    /\ clean.pi <= Len(clean.playerPieces)
    /\ moveGenCache' = CacheAfterGen(pieces, clean.playerPieces[clean.pi], sideToMove,
                                     enPassantTarget, castlingRights, moveGenCache)
    /\ clean' = [clean EXCEPT !.totalMoves = @ + Len(CleanLegalMoves),
                              !.pi = @ + 1]
    /\ UNCHANGED <<pc, pieces, enPassantTarget, castlingRights>>
    /\ UNCHANGED searchVars

\* "return totalMoves" of the depth 1 branch
CleanBulkReturn ==
    /\ clean.pc = "bulk"
    /\ clean.pi > Len(clean.playerPieces)
    /\ clean' = [clean EXCEPT !.pc = "returned",
                              !.counts = ("bulk" :> clean.totalMoves) @@ @]
    /\ UNCHANGED <<pc, pieces, enPassantTarget, castlingRights, moveGenCache>>
    /\ UNCHANGED searchVars

\* the function is entered again for the loop that makes the moves
CleanEnterMade ==
    /\ clean.pc = "returned"
    /\ moveGenCache' = EmptyCache
    /\ clean' = [clean EXCEPT !.pc = "piece",
                              !.playerPieces = getAllPiecesForColor(pieces, sideToMove),
                              !.pi = 1,
                              !.totalMoves = 0]
    /\ UNCHANGED <<pc, pieces, enPassantTarget, castlingRights>>
    /\ UNCHANGED searchVars

\* one turn of the loop "For deeper depths", up to the loop over legalMoves
CleanGenPiece ==
    /\ clean.pc = "piece"
    /\ clean.pi <= Len(clean.playerPieces)
    /\ moveGenCache' = CacheAfterGen(pieces, clean.playerPieces[clean.pi], sideToMove,
                                     enPassantTarget, castlingRights, moveGenCache)
    /\ clean' = IF CleanLegalMoves = <<>>
                THEN [clean EXCEPT !.pi = @ + 1]
                ELSE [clean EXCEPT !.pc = "move",
                                   !.from = clean.playerPieces[clean.pi],
                                   !.legalMoves = CleanLegalMoves,
                                   !.mi = 1]
    /\ UNCHANGED <<pc, pieces, enPassantTarget, castlingRights>>
    /\ UNCHANGED searchVars

\* how many calls of countMovesAtDepth(depth - 1, ...) the move gets: four
\* for a pawn on its last rank, one for any other move
CleanCalls(movingPiece, to) ==
    IF movingPiece.type = PAWN /\ to[2] = (IF movingPiece.color = WHITE THEN 0 ELSE 7)
    THEN 4 ELSE 1

\* one turn of the loop over legalMoves: the move is made, each call at
\* depth 0 clears the cache and returns 1, the move is unmade
CleanMakeMove ==
    /\ clean.pc = "move"
    /\ LET to == clean.legalMoves[clean.mi]
           movingPiece == pieces[Idx(clean.from)]
           made == MakeMove(pieces, castlingRights, enPassantTarget,
                            clean.from, to, movingPiece)
           more == clean.mi < Len(clean.legalMoves)
       IN /\ pieces' = UnmakePieces(made.pieces, clean.from, movingPiece, made.undo)
          /\ castlingRights' = made.undo.oldCastlingRights
          /\ enPassantTarget' = made.undo.oldEnPassantTarget
          /\ moveGenCache' = EmptyCache
          /\ clean' = [clean EXCEPT
                          !.totalMoves = @ + CleanCalls(movingPiece, to) * NewFrame(0, made.pieces, Opponent(sideToMove)).totalMoves,
                          !.mi = IF more THEN @ + 1 ELSE 1,
                          !.pi = IF more THEN @ ELSE @ + 1,
                          !.pc = IF more THEN "move" ELSE "piece",
                          !.from = IF more THEN @ ELSE NoPos,
                          !.legalMoves = IF more THEN @ ELSE <<>>]
    /\ UNCHANGED pc
    /\ UNCHANGED searchVars

\* "return totalMoves" at the end of the function
CleanReturn ==
    /\ clean.pc = "piece"
    /\ clean.pi > Len(clean.playerPieces)
    /\ clean' = [clean EXCEPT !.pc = "done",
                              !.counts = ("made" :> clean.totalMoves) @@ @]
    /\ UNCHANGED <<pc, pieces, enPassantTarget, castlingRights, moveGenCache>>
    /\ UNCHANGED searchVars

NextClean ==
    \/ ParseFEN
    \/ CleanEnterBulk
    \/ CleanBulkPiece
    \/ CleanBulkReturn
    \/ CleanEnterMade
    \/ CleanGenPiece
    \/ CleanMakeMove
    \/ CleanReturn

SpecClean == InitClean /\ [][NextClean]_vars

-----------------------------------------------------------------------------
(* The interactive game: ChessGameLogic (game_logic.cpp) and               *)
(* ChessInteraction (pieces_movment.cpp) on the map the two share.  The    *)
(* vector legalMoves is a set here: the code only looks an element up in   *)
(* it and asks whether it is empty.  fullMoveCounter, which nothing on the *)
(* path of a click reads, is left out.                                     *)

AllSquares == {PosOf(i) : i \in 0..63}

\* ChessGameLogic::isSquareAttackedByPieces.  isSquareAttacked(square, color)
\* of the class answers the same for the shared map: its cache is keyed on
\* the map's hash and emptied by every switchTurn
isSquareAttackedByPieces(p, square, attackingColor) ==
    LET targetX == square[1]
        targetY == square[2]
        pawnDirection == IF attackingColor = WHITE THEN 1 ELSE -1
        slidingDx == <<0, 1, 0, -1, 1, 1, -1, -1>>
        slidingDy == <<1, 0, -1, 0, 1, -1, 1, -1>>
    IN \/ \E dx \in {-1, 1} :
             /\ OnBoard(targetX + dx, targetY + pawnDirection)
             /\ At(p, targetX + dx, targetY + pawnDirection) = ChessPiece(PAWN, attackingColor)
       \/ \E i \in 1..8 :
             /\ OnBoard(targetX + knightDx[i], targetY + knightDy[i])
             /\ At(p, targetX + knightDx[i], targetY + knightDy[i])
                    = ChessPiece(KNIGHT, attackingColor)
       \/ \E dx \in {-1, 0, 1} : \E dy \in {-1, 0, 1} :
             /\ <<dx, dy>> # <<0, 0>>
             /\ OnBoard(targetX + dx, targetY + dy)
             /\ At(p, targetX + dx, targetY + dy) = ChessPiece(KING, attackingColor)
       \/ \E i \in 1..8 : \E dist \in 1..7 :
             /\ OnBoard(targetX + dist * slidingDx[i], targetY + dist * slidingDy[i])
             /\ \A d \in 1..(dist - 1) :
                   ~Has(p, targetX + d * slidingDx[i], targetY + d * slidingDy[i])
             /\ LET piece == At(p, targetX + dist * slidingDx[i], targetY + dist * slidingDy[i])
                IN /\ piece.color = attackingColor
                   /\ \/ i <= 4 /\ piece.type \in {ROOK, QUEEN}
                      \/ i > 4 /\ piece.type \in {BISHOP, QUEEN}

\* ChessGameLogic::getKingPosition: the positions the constructor found
getKingPosition(g, color) ==
    IF color = WHITE THEN g.whiteKingPosition ELSE g.blackKingPosition

\* ChessGameLogic::isKingInCheck
isKingInCheck(g, kingColor) ==
    LET kingPos == getKingPosition(g, kingColor)
    IN IF kingPos[1] = -1 THEN FALSE
       ELSE isSquareAttackedByPieces(g.pieces, kingPos, Opponent(kingColor))

\* ChessGameLogic::canCastleKingside
canCastleKingside(g, color) ==
    LET rank == IF color = WHITE THEN 7 ELSE 0
    IN /\ At(g.pieces, 4, rank) = ChessPiece(KING, color)
       /\ At(g.pieces, 7, rank) = ChessPiece(ROOK, color)
       /\ \A file \in 5..6 : ~Has(g.pieces, file, rank)
       /\ ~isKingInCheck(g, color)
       /\ \A file \in 5..6 :
             ~isSquareAttackedByPieces(g.pieces, <<file, rank>>, Opponent(color))

\* ChessGameLogic::canCastleQueenside
canCastleQueenside(g, color) ==
    LET rank == IF color = WHITE THEN 7 ELSE 0
    IN /\ At(g.pieces, 4, rank) = ChessPiece(KING, color)
       /\ At(g.pieces, 0, rank) = ChessPiece(ROOK, color)
       /\ \A file \in 1..3 : ~Has(g.pieces, file, rank)
       /\ ~isKingInCheck(g, color)
       /\ \A file \in 2..3 :
             ~isSquareAttackedByPieces(g.pieces, <<file, rank>>, Opponent(color))

\* ChessGameLogic::isValidMove with the isValid...Move functions it calls
isValidMove(g, from, to) ==
    LET p == g.pieces
        piece == p[Idx(from)]
        color == piece.color
        dx == to[1] - from[1]
        dy == to[2] - from[2]
        adx == Abs(dx)
        ady == Abs(dy)
        direction == IF color = WHITE THEN -1 ELSE 1
        startingRank == IF color = WHITE THEN 6 ELSE 1
        xDirection == IF dx > 0 THEN 1 ELSE -1
        yDirection == IF dy > 0 THEN 1 ELSE -1
        isValidPawnMove ==
            IF dx = 0 /\ dy = direction THEN ~Has(p, to[1], to[2])
            ELSE IF dx = 0 /\ dy = 2 * direction /\ from[2] = startingRank
            THEN ~Has(p, from[1], from[2] + direction) /\ ~Has(p, to[1], to[2])
            ELSE /\ adx = 1 /\ dy = direction
                 /\ \/ Has(p, to[1], to[2]) /\ p[Idx(to)].color # color
                    \/ g.enPassantAvailable /\ to = g.enPassantTarget
        isValidKnightMove == (adx = 1 /\ ady = 2) \/ (adx = 2 /\ ady = 1)
        isValidBishopMove ==
            /\ adx = ady /\ adx # 0
            /\ \A i \in 1..(adx - 1) :
                  ~Has(p, from[1] + i * xDirection, from[2] + i * yDirection)
        isValidRookMove ==
            /\ ~(dx # 0 /\ dy # 0) /\ ~(dx = 0 /\ dy = 0)
            /\ IF dx # 0
               THEN \A i \in 1..(adx - 1) : ~Has(p, from[1] + i * xDirection, from[2])
               ELSE \A i \in 1..(ady - 1) : ~Has(p, from[1], from[2] + i * yDirection)
        isValidKingMove ==
            IF adx <= 1 /\ ady <= 1 /\ ~(adx = 0 /\ ady = 0)
            THEN ~isSquareAttackedByPieces(p, to, Opponent(color))
            ELSE IF ady = 0 /\ adx = 2
            THEN IF to[1] > from[1] THEN canCastleKingside(g, color)
                 ELSE canCastleQueenside(g, color)
            ELSE FALSE
        validPieceMove ==
            CASE piece.type = PAWN -> isValidPawnMove
              [] piece.type = KNIGHT -> isValidKnightMove
              [] piece.type = BISHOP -> isValidBishopMove
              [] piece.type = ROOK -> isValidRookMove
              [] piece.type = QUEEN -> isValidRookMove \/ isValidBishopMove
              [] piece.type = KING -> isValidKingMove
              [] OTHER -> FALSE
        tempBoard == Erase(Put(p, to, piece), from)
        kingPos == IF piece.type = KING THEN to ELSE getKingPosition(g, color)
    IN /\ piece # NoPiece
       /\ color = g.currentTurn
       /\ ~(Has(p, to[1], to[2]) /\ p[Idx(to)].color = g.currentTurn)
       /\ validPieceMove
       /\ ~isSquareAttackedByPieces(tempBoard, kingPos, Opponent(color))

\* ChessGameLogic::getLegalMoves, which is getValidMovesForPiece
getLegalMoves(g, from) ==
    IF g.pieces[Idx(from)] = NoPiece \/ g.pieces[Idx(from)].color # g.currentTurn
    THEN {}
    ELSE {to \in AllSquares : isValidMove(g, from, to)}

\* ChessGameLogic::hasLegalMoves
hasLegalMoves(g, playerColor) ==
    LET p == g.pieces
        direction == IF playerColor = WHITE THEN -1 ELSE 1
        kingSafe == ~isSquareAttackedByPieces(p, getKingPosition(g, playerColor),
                                               Opponent(playerColor))
    IN \E pos \in AllSquares :
          /\ p[Idx(pos)] # NoPiece
          /\ p[Idx(pos)].color = playerColor
          /\ \/ /\ p[Idx(pos)].type = PAWN
                /\ kingSafe
                /\ \/ /\ pos[2] + direction >= 0 /\ pos[2] + direction < 8
                      /\ ~Has(p, pos[1], pos[2] + direction)
                   \/ \E dx \in {-1, 1} :
                         /\ OnBoard(pos[1] + dx, pos[2] + direction)
                         /\ Has(p, pos[1] + dx, pos[2] + direction)
                         /\ At(p, pos[1] + dx, pos[2] + direction).color # playerColor
             \/ /\ p[Idx(pos)].type = KNIGHT
                /\ kingSafe
                /\ \E i \in 1..8 :
                      /\ OnBoard(pos[1] + knightDx[i], pos[2] + knightDy[i])
                      /\ At(p, pos[1] + knightDx[i], pos[2] + knightDy[i]).color # playerColor
             \/ getLegalMoves(g, pos) # {}

\* ChessGameLogic::switchTurn.  halfMoveClock stays 0 and positionHistory
\* keeps its one entry, since a click never calls makeMove
switchTurn(g) ==
    LET turned == [g EXCEPT !.currentTurn = Opponent(g.currentTurn)]
        inCheck == isKingInCheck(turned, turned.currentTurn)
        canMove == hasLegalMoves(turned, turned.currentTurn)
        p == turned.pieces
        Count(type, color) == Cardinality({i \in 0..63 : p[i] = ChessPiece(type, color)})
        minors == <<Count(BISHOP, WHITE), Count(KNIGHT, WHITE),
                    Count(BISHOP, BLACK), Count(KNIGHT, BLACK)>>
        OnLight(color) ==
            \E pos \in AllSquares :
                p[Idx(pos)] = ChessPiece(BISHOP, color) /\ (pos[1] + pos[2]) % 2 = 0
        hasInsufficientMaterial ==
            /\ \A i \in 0..63 : p[i].type \notin {PAWN, ROOK, QUEEN}
            /\ \/ minors \in {<<0, 0, 0, 0>>, <<0, 1, 0, 0>>, <<0, 0, 0, 1>>,
                               <<1, 0, 0, 0>>, <<0, 0, 1, 0>>}
               \/ minors = <<1, 0, 1, 0>> /\ (OnLight(WHITE) <=> OnLight(BLACK))
    IN [turned EXCEPT !.gameState =
           IF inCheck THEN (IF canMove THEN "CHECK" ELSE "CHECKMATE")
           ELSE IF ~canMove THEN "STALEMATE"
           ELSE IF Cardinality({i \in 0..63 : p[i] # NoPiece}) <= 4
                   /\ hasInsufficientMaterial
           THEN "DRAW_MATERIAL"
           ELSE "ACTIVE"]

\* ChessGameLogic::getCurrentPositionFEN: the characters of the string.
\* fullMoveCounter is 1 whenever the constructor or resetGame asks for it
getCurrentPositionFEN(g) ==
    LET digits == <<"0", "1", "2", "3", "4", "5", "6", "7", "8", "9">>
        files == <<"a", "b", "c", "d", "e", "f", "g", "h">>
        PieceChar(piece) ==
            LET i == CASE piece.type = PAWN -> 1 [] piece.type = KNIGHT -> 2
                       [] piece.type = BISHOP -> 3 [] piece.type = ROOK -> 4
                       [] piece.type = QUEEN -> 5 [] piece.type = KING -> 6
            IN IF piece.color = WHITE THEN <<"P", "N", "B", "R", "Q", "K">>[i]
               ELSE <<"p", "n", "b", "r", "q", "k">>[i]
        Count(emptyCount) == IF emptyCount > 0 THEN <<digits[emptyCount + 1]>> ELSE <<>>
        RECURSIVE RankFrom(_, _, _)
        RankFrom(rank, file, emptyCount) ==
            IF file = 8 THEN Count(emptyCount)
            ELSE IF Has(g.pieces, file, rank)
            THEN Count(emptyCount) \o <<PieceChar(At(g.pieces, file, rank))>>
                     \o RankFrom(rank, file + 1, 0)
            ELSE RankFrom(rank, file + 1, emptyCount + 1)
        RECURSIVE BoardFrom(_)
        BoardFrom(rank) ==
            RankFrom(rank, 0, 0)
                \o (IF rank < 7 THEN <<"/">> \o BoardFrom(rank + 1) ELSE <<>>)
    IN BoardFrom(0)
           \o <<" ", IF g.currentTurn = WHITE THEN "w" ELSE "b">>
           \o <<" ", "-", " ">>
           \o (IF g.enPassantAvailable
               THEN <<" ", files[g.enPassantTarget[1] + 1], digits[8 - g.enPassantTarget[2] + 1]>>
               ELSE <<" ", "-", " ">>)
           \o <<" ", digits[g.halfMoveClock + 1], " ", "1">>

\* ChessGameLogic::setupFromFEN for the description d, with
\* updateKingPositions
setupFromFEN(g, d) ==
    LET p == ParsePlacement(d.placement)
        King(color, old) ==
            LET kings == {i \in 0..63 : p[i] = ChessPiece(KING, color)}
            IN IF kings = {} THEN old
               ELSE PosOf(CHOOSE i \in kings : \A k \in kings : k <= i)
        logic == [g EXCEPT !.pieces = p,
                           !.currentTurn = IF d.side = <<"w">> THEN WHITE ELSE BLACK,
                           !.whiteKingPosition = King(WHITE, @),
                           !.blackKingPosition = King(BLACK, @)]
    IN [logic EXCEPT !.positionHistory = Append(@, getCurrentPositionFEN(logic))]

\* ChessInteraction::movePiece with executeCastling and the first
\* executePromotion
movePiece(g, from, to) ==
    LET p == g.pieces
        movingPiece == p[Idx(from)]
        white == movingPiece.color = WHITE
        y == from[2]
        kingside == to[1] > from[1]
        rookFrom == IF kingside THEN <<7, y>> ELSE <<0, y>>
        rookTo == IF kingside THEN <<to[1] - 1, y>> ELSE <<to[1] + 1, y>>
        kingMovedTo == Erase(Put(p, to, movingPiece), from)
        isPromotionMove ==
            movingPiece.type = PAWN /\ to[2] = (IF white THEN 0 ELSE 7)
    IN IF movingPiece.type = KING /\ from[2] = to[2] /\ Abs(to[1] - from[1]) = 2
       THEN [g EXCEPT
                !.pieces = IF Has(kingMovedTo, rookFrom[1], rookFrom[2])
                           THEN Erase(Put(kingMovedTo, rookTo, kingMovedTo[Idx(rookFrom)]),
                                      rookFrom)
                           ELSE kingMovedTo,
                !.whiteKingMoved = @ \/ white,
                !.blackKingMoved = @ \/ ~white,
                !.whiteKingsideRookMoved = @ \/ (white /\ kingside),
                !.blackKingsideRookMoved = @ \/ (~white /\ kingside),
                !.whiteQueensideRookMoved = @ \/ (white /\ ~kingside),
                !.blackQueensideRookMoved = @ \/ (~white /\ ~kingside)]
       ELSE [g EXCEPT
                !.pieces = Erase(Put(p, to, movingPiece), from),
                !.awaitingPromotion = isPromotionMove,
                !.promotionSquare = IF isPromotionMove THEN to ELSE @,
                !.whiteKingMoved = @ \/ (movingPiece.type = KING /\ white),
                !.blackKingMoved = @ \/ (movingPiece.type = KING /\ ~white),
                !.whiteQueensideRookMoved = @ \/ (movingPiece.type = ROOK /\ from = <<0, 7>>),
                !.whiteKingsideRookMoved = @ \/ (movingPiece.type = ROOK /\ from = <<7, 7>>),
                !.blackQueensideRookMoved = @ \/ (movingPiece.type = ROOK /\ from = <<0, 0>>),
                !.blackKingsideRookMoved = @ \/ (movingPiece.type = ROOK /\ from = <<7, 0>>)]

\* ChessInteraction::getKingMoves with canCastle, the one place where the
\* six "moved" flags are read
getKingMoves(g, pos, piece) ==
    LET p == g.pieces
        x == pos[1]
        y == pos[2]
        opponentColor == Opponent(piece.color)
        white == piece.color = WHITE
        kingMoved == IF white THEN g.whiteKingMoved ELSE g.blackKingMoved
        RookMoved(direction) ==
            IF direction > 0
            THEN (IF white THEN g.whiteKingsideRookMoved ELSE g.blackKingsideRookMoved)
            ELSE (IF white THEN g.whiteQueensideRookMoved ELSE g.blackQueensideRookMoved)
        canCastle(direction) ==
            LET rookPos == <<IF direction > 0 THEN 7 ELSE 0, y>>
                startCol == IF direction > 0 THEN x + 1 ELSE rookPos[1] + 1
                endCol == IF direction > 0 THEN rookPos[1] - 1 ELSE x - 1
            IN /\ y = (IF white THEN 7 ELSE 0)
               /\ p[Idx(rookPos)] = ChessPiece(ROOK, piece.color)
               /\ \A col \in Min(startCol, endCol)..(IF startCol > endCol THEN startCol
                                                      ELSE endCol) : ~Has(p, col, y)
               /\ \A col \in {x, x + direction} :
                     ~isSquareAttackedByPieces(p, <<col, y>>, opponentColor)
    IN {newPos \in AllSquares :
           /\ Abs(newPos[1] - x) <= 1 /\ Abs(newPos[2] - y) <= 1 /\ newPos # pos
           /\ p[Idx(newPos)].color # piece.color
           /\ ~isSquareAttackedByPieces(p, newPos, opponentColor)}
       \cup {<<x + 2 * direction, y>> : direction \in
                 {d \in {-1, 1} : /\ ~isKingInCheck(g, g.currentTurn)
                                  /\ ~kingMoved
                                  /\ ~RookMoved(d)
                                  /\ canCastle(d)}}

\* ChessInteraction::calculateLegalMoves: the value it leaves in legalMoves
calculateLegalMoves(g) ==
    LET p == g.pieces
        pos == g.selectedSquare
        piece == p[Idx(pos)]
        x == pos[1]
        y == pos[2]
        potentialMoves == getLegalMoves(g, pos)
        direction == IF piece.color = WHITE THEN -1 ELSE 1
        startingRank == IF piece.color = WHITE THEN 6 ELSE 1
        getPawnMoves ==
            {to \in AllSquares :
                \/ /\ to = <<x, y + direction>>
                   /\ ~Has(p, to[1], to[2])
                \/ /\ to = <<x, y + 2 * direction>>
                   /\ y = startingRank
                   /\ ~Has(p, x, y + direction)
                   /\ ~Has(p, to[1], to[2])
                \/ /\ Abs(to[1] - x) = 1 /\ to[2] = y + direction
                   /\ Has(p, to[1], to[2])
                   /\ p[Idx(to)].color # piece.color}
        getKnightMoves ==
            {to \in AllSquares :
                /\ \E i \in 1..8 : to = <<x + knightDx[i], y + knightDy[i]>>
                /\ (~Has(p, to[1], to[2]) \/ p[Idx(to)].color = Opponent(piece.color))}
        \* addMovesInDirection over the given directions
        Slide(dirs) ==
            {to \in AllSquares :
                \E dir \in dirs : \E i \in 1..7 :
                    /\ to = <<x + i * dir[1], y + i * dir[2]>>
                    /\ \A k \in 1..(i - 1) : ~Has(p, x + k * dir[1], y + k * dir[2])
                    /\ p[Idx(to)].color # piece.color}
        straight == {<<0, -1>>, <<1, 0>>, <<0, 1>>, <<-1, 0>>}
        diagonal == {<<-1, -1>>, <<1, -1>>, <<1, 1>>, <<-1, 1>>}
        own == CASE piece.type = PAWN -> getPawnMoves
                 [] piece.type = ROOK -> Slide(straight)
                 [] piece.type = KNIGHT -> getKnightMoves
                 [] piece.type = BISHOP -> Slide(diagonal)
                 [] piece.type = QUEEN -> Slide(straight \cup diagonal)
                 [] piece.type = KING -> getKingMoves(g, pos, piece)
                 [] OTHER -> {}
        ResolvesCheck(move) ==
            ~isSquareAttackedByPieces(Erase(Put(p, move, piece), pos),
                 IF piece.type = KING THEN move ELSE getKingPosition(g, piece.color),
                 Opponent(piece.color))
    IN IF pos[1] = -1 THEN {}
       ELSE IF piece = NoPiece THEN {}
       ELSE IF piece.color # g.currentTurn THEN {}
       ELSE IF potentialMoves # {} THEN potentialMoves
       ELSE IF g.gameState = "CHECK" THEN {move \in own : ResolvesCheck(move)}
       ELSE own

\* the squares of the board the user clicks on
ClickSquares ==
    {<<4, 7>>, <<5, 7>>, <<6, 7>>, <<7, 7>>, <<6, 6>>, <<6, 5>>, <<5, 5>>,
     <<6, 0>>, <<5, 2>>}

\* ChessInteraction::handleMouseClick for a click on clickedSquare: the
\* objects after the call
AfterClick(g, clickedSquare) ==
    LET currentTurn == g.currentTurn
        isInCheck == g.gameState = "CHECK"
        clicked == g.pieces[Idx(clickedSquare)]
        clearSelection(h) == [h EXCEPT !.selectedSquare = NoPos, !.legalMoves = {}]
        moved == movePiece(g, g.selectedSquare, clickedSquare)
        turned == switchTurn(clearSelection(moved))
        selected == [g EXCEPT !.selectedSquare = clickedSquare]
        calculated == [selected EXCEPT !.legalMoves = calculateLegalMoves(selected)]
        kingPos == getKingPosition(g, currentTurn)
        resolving ==
            {move \in calculated.legalMoves :
                ~isSquareAttackedByPieces(
                    Erase(Put(g.pieces, move, clicked), clickedSquare),
                    IF clicked.type = KING THEN move ELSE kingPos,
                    Opponent(currentTurn))}
    IN IF g.gameState \notin {"ACTIVE", "CHECK"} THEN g
       ELSE IF g.selectedSquare[1] # -1 /\ clickedSquare \in g.legalMoves
       THEN IF moved.awaitingPromotion THEN moved
            ELSE IF isInCheck /\ turned.gameState = "CHECK" THEN switchTurn(turned)
            ELSE turned
       ELSE IF clicked # NoPiece
       THEN IF clicked.color # currentTurn THEN g
            ELSE IF g.selectedSquare = clickedSquare THEN clearSelection(g)
            ELSE IF isInCheck /\ calculated.legalMoves # {}
            THEN IF resolving = {} THEN clearSelection(calculated)
                 ELSE [calculated EXCEPT !.legalMoves = resolving]
            ELSE calculated
       ELSE clearSelection(g)

\* ChessBoard::initialize: the standard position is set up, and the
\* constructors of ChessGameLogic and ChessInteraction have run
NewGame ==
    LET p == ParsePlacement(Positions[1].placement)
        logic == [IdleGame EXCEPT !.open = TRUE,
                                  !.pieces = p,
                                  !.whiteKingPosition = FindKing(p, WHITE, 0),
                                  !.blackKingPosition = FindKing(p, BLACK, 0)]
    IN [logic EXCEPT !.positionHistory = <<getCurrentPositionFEN(logic)>>]

InitGame == Start({1}) /\ numThreads = 1

\* startChessApplication: the window opens on a new game
startChessApplication ==
    /\ pc = "parse"
    /\ ~game.open
    /\ game' = NewGame
    /\ UNCHANGED <<fen, numThreads, pc, depth, pieces, sideToMove, originalCastlingRights,
                   totalNodes, enPassantTarget, castlingRights, moveGenCache, board,
                   stack, worker, raced, clean>>

\* a click on the board while no promotion panel is shown
handleMouseClick ==
    /\ game.open
    /\ ~game.awaitingPromotion
    /\ \E clickedSquare \in ClickSquares : game' = AfterClick(game, clickedSquare)
    /\ UNCHANGED <<fen, numThreads, pc, depth, pieces, sideToMove, originalCastlingRights,
                   totalNodes, enPassantTarget, castlingRights, moveGenCache, board,
                   stack, worker, raced, clean>>

\* ChessBoard::handleButtonClick on the reset button: ChessGameLogic::resetGame
\* and a new ChessInteraction
resetGame ==
    /\ game.open
    /\ game' = setupFromFEN([NewGame EXCEPT !.pieces = game.pieces,
                                            !.whiteKingPosition = game.whiteKingPosition,
                                            !.blackKingPosition = game.blackKingPosition,
                                            !.enPassantTarget = game.enPassantTarget,
                                            !.positionHistory = <<>>],
                            Positions[1])
    /\ UNCHANGED <<fen, numThreads, pc, depth, pieces, sideToMove, originalCastlingRights,
                   totalNodes, enPassantTarget, castlingRights, moveGenCache, board,
                   stack, worker, raced, clean>>

NextGame ==
    \/ startChessApplication
    \/ handleMouseClick
    \/ resetGame

SpecGame == InitGame /\ [][NextGame]_vars

-----------------------------------------------------------------------------
(* the interactive game played by the clicks that ChessBoard::handleEvents  *)
(* polls, one after the other                                              *)

\* the clicks on a square that may follow the clicks of a game
MaxStrayClicks == 1

\* the promotion branch of ChessInteraction::handleMouseClick with the second
\* executePromotion: option is the piece type of the panel entry clicked, or
\* "outside" for a click that misses the panel
AfterPanelClick(g, option) ==
    LET promoted ==
            IF g.promotionSquare[1] = -1 \/ g.promotionSquare[2] = -1 THEN g
            ELSE [g EXCEPT !.pieces = Put(@, g.promotionSquare,
                                          [@[Idx(g.promotionSquare)] EXCEPT !.type = option]),
                           !.promotionSquare = NoPos]
    IN IF g.gameState \notin {"ACTIVE", "CHECK"} THEN g
       ELSE IF option = "outside" THEN [g EXCEPT !.awaitingPromotion = FALSE]
       ELSE switchTurn([promoted EXCEPT !.awaitingPromotion = FALSE])

\* the games played: the position the board is set to and the clicks, a
\* square <<file, rank>> of the board or <<option>> of the promotion panel.
\* The last one starts where a game from the standard position in which
\* neither king has moved can get to; the others start from the standard
\* position.
Games ==
    <<
      [name |-> "crossCheck",
       placement |-> Positions[1].placement,
       events |-> <<<<4, 6>>, <<4, 4>>, <<3, 1>>, <<3, 3>>, <<4, 4>>, <<3, 3>>, <<4, 1>>,
                   <<4, 2>>, <<3, 3>>, <<4, 2>>, <<2, 0>>, <<4, 2>>, <<6, 7>>, <<5, 5>>,
                   <<3, 0>>, <<4, 1>>, <<5, 7>>, <<1, 3>>, <<4, 2>>, <<3, 1>>>>],
      [name |-> "promotionCancelled",
       placement |-> Positions[1].placement,
       events |-> <<<<6, 6>>, <<6, 4>>, <<6, 0>>, <<5, 2>>, <<6, 4>>, <<6, 3>>, <<5, 2>>,
                   <<6, 0>>, <<6, 3>>, <<6, 2>>, <<6, 0>>, <<5, 2>>, <<6, 2>>, <<7, 1>>,
                   <<5, 2>>, <<6, 0>>, <<7, 1>>, <<6, 0>>, <<"outside">>, <<6, 7>>,
                   <<5, 5>>>>],
      [name |-> "promotionChosen",
       placement |-> Positions[1].placement,
       events |-> <<<<6, 6>>, <<6, 4>>, <<6, 0>>, <<5, 2>>, <<6, 4>>, <<6, 3>>, <<5, 2>>,
                   <<6, 0>>, <<6, 3>>, <<6, 2>>, <<6, 0>>, <<5, 2>>, <<6, 2>>, <<7, 1>>,
                   <<5, 2>>, <<6, 0>>, <<7, 1>>, <<6, 0>>, <<QUEEN>>>>],
      [name |-> "kingWalks",
       placement |-> Positions[1].placement,
       events |-> <<<<4, 6>>, <<4, 4>>, <<3, 1>>, <<3, 3>>, <<4, 7>>, <<4, 6>>, <<2, 0>>,
                   <<6, 4>>, <<0, 6>>>>],
      [name |-> "pinnedPawn",
       placement |-> <<"4", "k", "3", "/", "8", "/", "8", "/", "8", "/", "b", "b", "6", "/", "8", "/", "3", "P", "3", "q", "/", "4", "K", "B", "2">>,
       events |-> <<<<5, 7>>, <<6, 6>>, <<7, 6>>, <<6, 6>>>>]
    >>

\* ChessBoard::initialize: setPosition, and the constructors of
\* ChessGameLogic and ChessInteraction; the clicks to come are those of a
\* game and up to MaxStrayClicks clicks on the third rank
initialize ==
    /\ pc = "parse"
    /\ ~game.open
    /\ \E i \in 1..Len(Games) : \E n \in 0..MaxStrayClicks :
          \E stray \in [1..n -> {<<file, 5>> : file \in 0..7}] :
             LET p == ParsePlacement(Games[i].placement)
                 logic == [IdleGame EXCEPT !.open = TRUE,
                                           !.pieces = p,
                                           !.whiteKingPosition = FindKing(p, WHITE, 0),
                                           !.blackKingPosition = FindKing(p, BLACK, 0),
                                           !.events = Games[i].events \o stray]
             IN game' = [logic EXCEPT !.positionHistory = <<getCurrentPositionFEN(logic)>>]
    /\ UNCHANGED <<fen, numThreads, pc, depth, pieces, sideToMove, originalCastlingRights,
                   totalNodes, enPassantTarget, castlingRights, moveGenCache, board,
                   stack, worker, raced, clean>>

\* ChessBoard::handleEvents for the next left click polled
handleEvents ==
    /\ game.open
    /\ game.events # <<>>
    /\ LET event == Head(game.events)
       IN /\ game.awaitingPromotion <=> Len(event) = 1
          /\ game' = [(IF game.awaitingPromotion THEN AfterPanelClick(game, event[1])
                       ELSE AfterClick(game, event))
                         EXCEPT !.events = Tail(game.events)]
    /\ UNCHANGED <<fen, numThreads, pc, depth, pieces, sideToMove, originalCastlingRights,
                   totalNodes, enPassantTarget, castlingRights, moveGenCache, board,
                   stack, worker, raced, clean>>

NextPlay ==
    \/ initialize
    \/ handleEvents

SpecPlay == InitGame /\ [][NextPlay]_vars

-----------------------------------------------------------------------------
(* Properties                                                              *)

CaseName == Positions[fen].name

\* the reference values of the file for the standard position, as far as the
\* depth loop goes
EXPECTED_NODES == <<20, 400, 8902, 219326, 5832730>>

\* C1: for the standard initial position the count of countMovesAtDepth is 20
\* at depth 1, 400 at depth 2 and 8902 at depth 3.
InitialPositionCounts ==
    CaseName = "initial" =>
        \A d \in DOMAIN totalNodes : totalNodes[d] = EXPECTED_NODES[d]

\* the three depths of the initial position have been counted
InitialPositionCounted ==
    CaseName = "initial" /\ pc = "done" /\ DOMAIN totalNodes = 1..3

\* C2: when countMovesAtDepth has made a move, recursed and unmade it, the
\* piece placement, the castling rights and the en passant target are what
\* they were before the make.
MakeUnmakeRestores ==
    [][\A t \in Threads : \A k \in 1..Len(stack[t]) :
          (/\ stack[t][k].pc = "made"
           /\ Len(stack'[t]) = k
           /\ stack'[t][k].pc # "made")
          => /\ board'[t] = stack[t][k].before.pieces
             /\ castlingRights' = stack[t][k].before.castlingRights
             /\ enPassantTarget' = stack[t][k].before.enPassantTarget]_vars

\* whether a piece of attackingColor could capture on square as its next move:
\* a pawn from the two squares it captures from (it captures in the direction
\* it advances), a knight, a king next to the square, a slider along a free ray
AttackedByRules(p, square, attackingColor) ==
    LET x == square[1]
        y == square[2]
        advance == IF attackingColor = WHITE THEN -1 ELSE 1
    IN \/ \E side \in {-1, 1} :
             /\ OnBoard(x + side, y - advance)
             /\ At(p, x + side, y - advance) = ChessPiece(PAWN, attackingColor)
       \/ \E i \in 1..8 :
             /\ OnBoard(x + knightDx[i], y + knightDy[i])
             /\ At(p, x + knightDx[i], y + knightDy[i]) = ChessPiece(KNIGHT, attackingColor)
       \/ \E i \in 1..8 :
             /\ OnBoard(x + kingDx[i], y + kingDy[i])
             /\ At(p, x + kingDx[i], y + kingDy[i]) = ChessPiece(KING, attackingColor)
       \/ \E i \in 1..8 : \E dist \in 1..7 :
             /\ OnBoard(x + dist * queenDx[i], y + dist * queenDy[i])
             /\ \A d \in 1..(dist - 1) : ~Has(p, x + d * queenDx[i], y + d * queenDy[i])
             /\ LET piece == At(p, x + dist * queenDx[i], y + dist * queenDy[i])
                IN /\ piece.color = attackingColor
                   /\ \/ piece.type = QUEEN
                      \/ piece.type = ROOK /\ i <= 4
                      \/ piece.type = BISHOP /\ i > 4

\* C4: after any move that filterLegalMoves keeps, the mover's king is not
\* attacked by any piece of the opponent.
LegalMovesKeepKingSafe ==
    \A t \in Threads :
        (stack[t] # <<>> /\ Top(t).pc = "move") =>
            \A i \in 1..Len(Top(t).legalMoves) :
                LET f == Top(t)
                    after == MakeMove(board[t], castlingRights, enPassantTarget,
                                      f.from, f.legalMoves[i], f.movingPiece).pieces
                IN ~AttackedByRules(after, FindKing(after, f.currentTurn, 0),
                                    Opponent(f.currentTurn))

\* the move in progress of frame f is a pawn move onto the last rank
IsPromotion(f) ==
    /\ f.movingPiece.type = PAWN
    /\ f.undo.to[2] = (IF f.movingPiece.color = WHITE THEN 0 ELSE 7)

\* C5: a pawn move onto the last rank is counted as four moves, one for each
\* of queen, rook, bishop and knight, and the promotion position counts 24 at
\* depth 1.
PromotionsCountedFourTimes ==
    [][/\ \A t \in Threads :
             (/\ stack[t] # <<>>
              /\ Top(t).pc = "made"
              /\ Top(t).depth = 1
              /\ IsPromotion(Top(t))
              /\ Len(stack'[t]) = Len(stack[t])
              /\ stack'[t][Len(stack[t])].pc # "made")
             => stack'[t][Len(stack[t])].totalMoves = Top(t).totalMoves + 4
       /\ (CaseName = "promotion" /\ 1 \in DOMAIN totalNodes')
             => totalNodes'[1] = 24]_vars

\* the move in progress of frame f is an en passant capture: a pawn went
\* diagonally onto the en passant target, behind a pawn of the opponent
IsEnPassantMove(f) ==
    /\ f.pc = "made"
    /\ f.movingPiece.type = PAWN
    /\ f.undo.to = f.before.enPassantTarget
    /\ f.from[1] # f.undo.to[1]
    /\ f.before.pieces[Idx(<<f.undo.to[1], f.from[2]>>)]
           = ChessPiece(PAWN, Opponent(f.movingPiece.color))

\* C6: while an en passant capture is made, the captured pawn is off the
\* board: it is not on the destination file at the capturing pawn's rank.
EnPassantCaptureRemovesPawn ==
    \A t \in Threads : \A k \in 1..Len(stack[t]) :
        IsEnPassantMove(stack[t][k]) =>
            board[t][Idx(<<stack[t][k].undo.to[1], stack[t][k].from[2]>>)]
                # ChessPiece(PAWN, Opponent(stack[t][k].movingPiece.color))

\* C8: the position 8/2p5/3p4/KP5r/1R3p1k/8/4P1P1/8 with White to move
\* counts 14 at depth 1 and 191 at depth 2.
EndgameCounts ==
    CaseName = "endgame" =>
        \A d \in DOMAIN totalNodes : totalNodes[d] = <<14, 191>>[d]

\* C9: the Kiwipete position counts 48 at depth 1 and 2039 at depth 2.
KiwipeteCounts ==
    CaseName = "kiwipete" =>
        \A d \in DOMAIN totalNodes : totalNodes[d] = <<48, 2039>>[d]

\* both depths of the Kiwipete position have been counted
KiwipeteCounted ==
    CaseName = "kiwipete" /\ pc = "done" /\ DOMAIN totalNodes = 1..2

\* what countMovesAtDepth returns at depth 4, called by the depth loop on a
\* machine with one hardware thread
SingleThreadedNodes ==
    CASE CaseName = "kingTakesRook" -> 1828
      [] CaseName = "kingAndPawn" -> 209
      [] OTHER -> 0

\* on one hardware thread the depth loop prints SingleThreadedNodes
SingleThreadedNodesCounted ==
    (CaseName \in {"kingTakesRook", "kingAndPawn"} /\ numThreads = 1
        /\ 4 \in DOMAIN totalNodes)
    => totalNodes[4] = SingleThreadedNodes

\* C3: countMovesParallel returns what countMovesAtDepth returns for the same
\* position and depth, whatever the number of workers.
ParallelCountsLikeSingle ==
    (numThreads > 1 /\ 4 \in DOMAIN totalNodes) => totalNodes[4] = SingleThreadedNodes

\* a rook of its colour was captured on one of its home corners
CapturedHomeRook(hadPiece, capturedPiece, to) ==
    /\ hadPiece
    /\ capturedPiece.type = ROOK
    /\ to[1] \in {0, 7}
    /\ to[2] = (IF capturedPiece.color = WHITE THEN 7 ELSE 0)

\* the castling right that belongs to the rook of that colour on that corner
CornerRight(cr, color, to) ==
    IF color = WHITE
    THEN (IF to[1] = 0 THEN cr.whiteQueenSide ELSE cr.whiteKingSide)
    ELSE (IF to[1] = 0 THEN cr.blackQueenSide ELSE cr.blackKingSide)

\* C7: while a move that captured a rook on its home corner is made, in
\* countMovesAtDepth or as a root move of a worker, the castling right of that
\* corner, as the recursion below the move reads it, is false.
RookCaptureDropsRight ==
    /\ \A t \in Threads : \A k \in 1..Len(stack[t]) :
          (/\ stack[t][k].pc = "made"
           /\ CapturedHomeRook(stack[t][k].undo.hadPiece, stack[t][k].undo.capturedPiece,
                               stack[t][k].undo.to))
          => ~CornerRight(castlingRights, stack[t][k].undo.capturedPiece.color,
                          stack[t][k].undo.to)
    /\ \A w \in Workers :
          (/\ worker[w].pc = "call"
           /\ CapturedHomeRook(worker[w].hadPiece, worker[w].capturedPiece, worker[w].to))
          => ~CornerRight(castlingRights, worker[w].capturedPiece.color, worker[w].to)

\* C10: while a worker is inside its recursion, no step of another thread
\* changes the en passant target or the castling rights that it reads.
WorkersOwnWhatTheyRead ==
    [][\A w \in Workers :
          (stack[w] # <<>> /\ stack'[w] = stack[w] /\ worker'[w] = worker[w])
          => /\ enPassantTarget' = enPassantTarget
             /\ castlingRights' = castlingRights]_vars

\* C11: whenever getLegalMovesForPiece is about to answer from moveGenCache,
\* the cached list is the list that generation would produce for the current
\* board, en passant target and castling rights.
CachedMovesAreFresh ==
    \A t \in Threads :
        (stack[t] # <<>> /\ Top(t).pc = "piece"
            /\ Top(t).pi <= Len(Top(t).playerPieces)) =>
            LET from == Top(t).playerPieces[Top(t).pi]
                key == MoveGenKey(board[t], from, enPassantTarget)
            IN key \in DOMAIN moveGenCache =>
                   moveGenCache[key] = GenerateMoves(board[t], from, enPassantTarget,
                                                     castlingRights)

\* C12: at depth 1 the count that adds up the numbers of legal moves equals
\* the count that makes every move and calls down to depth 0.
BulkCountEqualsMadeCount ==
    DOMAIN clean.counts = {"bulk", "made"} => clean.counts["bulk"] = clean.counts["made"]

\* a pawn of attackingColor stands on one of the two squares from which a
\* pawn of that colour captures onto square: next to its file, one rank
\* behind it in the direction in which that colour advances (White advances
\* towards row 0, Black towards row 7)
PawnCapturesOnto(p, square, attackingColor) ==
    LET advance == IF attackingColor = WHITE THEN -1 ELSE 1
    IN \E side \in {-1, 1} :
          /\ OnBoard(square[1] + side, square[2] - advance)
          /\ At(p, square[1] + side, square[2] - advance) = ChessPiece(PAWN, attackingColor)

\* C13: on the board of a countMovesAtDepth call, for every square and
\* colour, isSquareAttacked finds a pawn attack exactly when a pawn of that
\* colour stands where it captures onto the square.
PawnAttackFromCaptureSquares ==
    stack[0] # <<>> =>
        \A i \in 0..63 : \A attackingColor \in {WHITE, BLACK} :
            PawnAttackReported(board[0], PosOf(i), attackingColor)
                <=> PawnCapturesOnto(board[0], PosOf(i), attackingColor)

\* the side to move has a move after which its king is not attacked: a
\* generated move other than castling (a side that may castle may also step
\* its king onto the square it would pass over)
HasMoveByRules(p, color, ep, cr) ==
    \E i \in 0..63 :
        /\ p[i] # NoPiece /\ p[i].color = color
        /\ LET from == PosOf(i)
               moves == GenerateMoves(p, from, ep, cr)
           IN \E k \in 1..Len(moves) :
                 LET to == moves[k]
                     isEnPassant == p[i].type = PAWN /\ to = ep /\ from[1] # to[1]
                     after == FilterTempPieces(p, from, to, p[i], isEnPassant)
                 IN /\ ~isCastlingMove(p[i], from, to)
                    /\ ~AttackedByRules(after, FindKing(after, color, 0), Opponent(color))

\* C14: when the side to move of the position given is checkmated or
\* stalemated, the count printed for depth 1 is 0.
NoMoveCountsZero ==
    (/\ 1 \in DOMAIN totalNodes
     /\ ~HasMoveByRules(ParsePlacement(Positions[fen].placement),
                        ParseSideToMove(Positions[fen].side),
                        ParseEnPassant(Positions[fen].enPassant),
                        ParseCastling(Positions[fen].castling)))
        => totalNodes[1] = 0

\* C15: the count of a countMovesAtDepth call with depth 0 is 1, whatever
\* the position.
DepthZeroReturnsOne ==
    /\ 0 \in DOMAIN totalNodes => totalNodes[0] = 1
    /\ \A t \in Threads : \A k \in 1..Len(stack[t]) :
           stack[t][k].depth <= 0 =>
               Finished(stack[t][k]) /\ stack[t][k].totalMoves = 1

\* a call with depth 0 has returned, on a position with pieces of both sides
DepthZeroReturned ==
    /\ 0 \in DOMAIN totalNodes
    /\ getAllPiecesForColor(pieces, sideToMove) # <<>>
    /\ pc = "done"

\* C16: a castling move that filterLegalMoves has kept leaves a king that is
\* not attacked where it stands, on the square it passes over and on the
\* square it lands on, in the position before the move.
KeptCastlingIsSafe ==
    \A t \in Threads :
        (stack[t] # <<>> /\ Top(t).pc = "move") =>
            \A i \in 1..Len(Top(t).legalMoves) :
                LET f == Top(t)
                    to == f.legalMoves[i]
                    direction == IF to[1] > f.from[1] THEN 1 ELSE -1
                    throughSquare == <<f.from[1] + direction, f.from[2]>>
                IN isCastlingMove(f.movingPiece, f.from, to) =>
                       \A square \in {f.from, throughSquare, to} :
                           ~AttackedByRules(board[t], square, Opponent(f.currentTurn))

\* the move in progress of frame f is a pawn's advance of two ranks from
\* its home rank (row 6 for White, row 1 for Black)
IsDoublePawnPush(f, to) ==
    LET homeRow == IF f.movingPiece.color = WHITE THEN 6 ELSE 1
        advance == IF f.movingPiece.color = WHITE THEN -1 ELSE 1
    IN /\ f.movingPiece.type = PAWN
       /\ f.from[2] = homeRow
       /\ to = <<f.from[1], homeRow + 2 * advance>>

\* C17: when countMovesAtDepth has made a move, the en passant target is the
\* square the pawn skipped if the move was a pawn's advance of two ranks from
\* its home rank, and it is unset after every other move.
EnPassantTargetAfterMake ==
    [][\A t \in Threads :
          (/\ stack[t] # <<>>
           /\ Top(t).pc = "move"
           /\ Len(stack'[t]) = Len(stack[t])
           /\ stack'[t][Len(stack[t])].pc = "made")
          => LET f == Top(t)
                 to == f.legalMoves[f.mi]
             IN enPassantTarget' =
                    IF IsDoublePawnPush(f, to)
                    THEN <<f.from[1], (f.from[2] + to[2]) \div 2>>
                    ELSE NoPos]_vars

\* a black pawn's advance of two ranks from its home rank has just been made
\* and the target is the square it skipped, on row 2
DoublePushMade ==
    /\ stack[0] # <<>>
    /\ Top(0).pc = "made"
    /\ Top(0).movingPiece = ChessPiece(PAWN, BLACK)
    /\ Top(0).from[2] = 1
    /\ Top(0).undo.to[2] = 3
    /\ enPassantTarget = <<Top(0).from[1], 2>>

\* C18: on the map of a countMovesAtDepth call that started from a position
\* without a pawn on rank 1 or rank 8 (rows 7 and 0), no pawn stands on
\* either of these ranks.
NoPawnOnLastRanks ==
    LET NoPawn(p) == \A col \in 0..7 : \A row \in {0, 7} : At(p, col, row).type # PAWN
    IN (stack[0] # <<>> /\ NoPawn(pieces)) => NoPawn(board[0])

\* C19: when a king is selected and a castling move is among the moves
\* offered for it, neither that king nor the rook of that side has moved
\* before in the game.
NoCastlingOfferedAfterMoving ==
    LET from == game.selectedSquare
        piece == game.pieces[Idx(from)]
        white == piece.color = WHITE
    IN (game.open /\ from # NoPos /\ piece.type = KING) =>
           \A to \in game.legalMoves :
               (to[2] = from[2] /\ Abs(to[1] - from[1]) = 2) =>
                   /\ ~(IF white THEN game.whiteKingMoved ELSE game.blackKingMoved)
                   /\ to[1] > from[1] =>
                          ~(IF white THEN game.whiteKingsideRookMoved
                            ELSE game.blackKingsideRookMoved)
                   /\ to[1] < from[1] =>
                          ~(IF white THEN game.whiteQueensideRookMoved
                            ELSE game.blackQueensideRookMoved)

\* a placement field without a fault: eight ranks, only piece letters and
\* the digits 1 to 8, every rank of eight squares, one king of each colour
WellFormedPlacement(chars) ==
    LET ends == {i \in 1..Len(chars) : chars[i] = "/"} \cup {Len(chars) + 1}
    IN /\ Cardinality(ends) = 8
       /\ \A i \in 1..Len(chars) :
             \/ chars[i] = "/"
             \/ DigitValue(chars[i]) \in 1..8
             \/ SymbolType(ToLower(chars[i])) # "NONE"
       /\ \A i \in ends : ColAt(chars, i) = 8
       /\ \A king \in {"K", "k"} : Cardinality({i \in 1..Len(chars) : chars[i] = king}) = 1

\* C20: from a description whose placement field has a fault,
\* calculateMovesForPosition sets up no position and prints no count.
FaultyDescriptionRejected ==
    ~WellFormedPlacement(Positions[fen].placement) =>
        /\ pieces = EmptyBoard
        /\ totalNodes = [d \in {} |-> 0]
        /\ stack[0] = <<>>

\* C21: when resetGame has set the game up from the description of the
\* standard position, the string getCurrentPositionFEN gives for it (the one
\* setupFromFEN puts into positionHistory) is that description, character
\* for character.
SetupThenEmitIsIdentity ==
    [][resetGame =>
          LET d == Positions[1]
              s == d.placement \o <<" ">> \o d.side \o <<" ">> \o d.castling \o <<" ">>
                       \o d.enPassant \o <<" ", "0", " ", "1">>
          IN getCurrentPositionFEN(game') = s]_vars

\* C22: a move made by a click that is neither a capture nor a pawn move
\* raises halfMoveClock by one, and a capture or a pawn move sets it to 0.
HalfMoveClockCountsQuietMoves ==
    [][(game.open /\ ~resetGame /\ game'.pieces # game.pieces) =>
          LET left == {i \in 0..63 : game.pieces[i] # NoPiece /\ game'.pieces[i] = NoPiece}
              pawnMove == \E i \in left : game.pieces[i].type = PAWN
              capture == Cardinality({i \in 0..63 : game'.pieces[i] # NoPiece})
                             < Cardinality({i \in 0..63 : game.pieces[i] # NoPiece})
          IN game'.halfMoveClock = IF pawnMove \/ capture THEN 0
                                   ELSE game.halfMoveClock + 1]_vars

\* the first occupied square met from square in direction (dx, dy) holds a
\* piece of attackingColor that moves that way: a queen, a rook along a rank
\* or file, a bishop along a diagonal
FirstOccupiedHoldsSlider(p, square, dx, dy, attackingColor) ==
    \E dist \in 1..7 :
        /\ OnBoard(square[1] + dist * dx, square[2] + dist * dy)
        /\ \A d \in 1..(dist - 1) : ~Has(p, square[1] + d * dx, square[2] + d * dy)
        /\ LET piece == At(p, square[1] + dist * dx, square[2] + dist * dy)
           IN /\ piece.color = attackingColor
              /\ \/ piece.type = QUEEN
                 \/ piece.type = ROOK /\ (dx = 0 \/ dy = 0)
                 \/ piece.type = BISHOP /\ dx # 0 /\ dy # 0

\* C23: on the board a countMovesAtDepth call starts with, for every square, colour
\* and direction, the ray scan of isSquareAttacked reports a rook, bishop or
\* queen exactly when the first occupied square met from the square holds a
\* queen, a rook (rank or file) or a bishop (diagonal) of that colour; the
\* only other piece the scan reports is a king on the neighbouring square.
SlidingAttackFromFirstOccupied ==
    (stack[0] # <<>> /\ Top(0).pc = "piece" /\ Top(0).pi = 1) =>
        \A i \in 0..63 : \A attackingColor \in {WHITE, BLACK} : \A dir \in 0..7 :
            LET square == PosOf(i)
                dx == attackDx[dir + 1]
                dy == attackDy[dir + 1]
                kingNext == /\ OnBoard(square[1] + dx, square[2] + dy)
                            /\ At(board[0], square[1] + dx, square[2] + dy)
                                   = ChessPiece(KING, attackingColor)
            IN RayAttacked(board[0], square[1], square[2], dir, 1, attackingColor)
                   <=> (kingNext
                        \/ FirstOccupiedHoldsSlider(board[0], square, dx, dy, attackingColor))

\* a board a call starts with on which the scan reports a queen three squares away
\* over two empty squares, and does not report a rook that stands behind a
\* pawn of its own colour
SliderSeenAndSliderBlocked ==
    /\ stack[0] # <<>> /\ Top(0).pc = "piece" /\ Top(0).pi = 1
    /\ \E i \in 0..63 : \E dir \in 0..7 :
          LET square == PosOf(i)
              dx == attackDx[dir + 1]
              dy == attackDy[dir + 1]
          IN /\ OnBoard(square[1] + 3 * dx, square[2] + 3 * dy)
             /\ ~Has(board[0], square[1] + dx, square[2] + dy)
             /\ ~Has(board[0], square[1] + 2 * dx, square[2] + 2 * dy)
             /\ At(board[0], square[1] + 3 * dx, square[2] + 3 * dy) = ChessPiece(QUEEN, WHITE)
             /\ isSquareAttacked(board[0], square, WHITE)
    /\ \E i \in 0..63 : \E dir \in 0..7 :
          LET square == PosOf(i)
              dx == attackDx[dir + 1]
              dy == attackDy[dir + 1]
          IN /\ OnBoard(square[1] + 2 * dx, square[2] + 2 * dy)
             /\ At(board[0], square[1] + dx, square[2] + dy) = ChessPiece(PAWN, WHITE)
             /\ At(board[0], square[1] + 2 * dx, square[2] + 2 * dy) = ChessPiece(ROOK, WHITE)
             /\ dx = 0
             /\ ~RayAttacked(board[0], square[1], square[2], dir, 1, WHITE)

MovePassesTurnOnce ==
    [][(/\ game.open
        /\ ~game.awaitingPromotion
        /\ ~game'.awaitingPromotion
        /\ game'.pieces # game.pieces)
       => game'.currentTurn = Opponent(game.currentTurn)]_vars

\* C26: in the interactive game, whiteKingPosition and blackKingPosition,
\* which isKingInCheck reads, are the squares the two kings stand on.
KingPositionIsKingSquare ==
    game.open =>
        /\ game.pieces[Idx(game.whiteKingPosition)] = ChessPiece(KING, WHITE)
        /\ game.pieces[Idx(game.blackKingPosition)] = ChessPiece(KING, BLACK)

\* C27: while a pawn stands on its last rank in the interactive game, a
\* click either leaves the pieces and the side to move as they are or puts a
\* queen, rook, bishop or knight in the place of that pawn.
PromotionHoldsTheGame ==
    [][LET lastRank == {i \in 0..63 :
                           /\ game.pieces[i].type = PAWN
                           /\ i % 8 = (IF game.pieces[i].color = WHITE THEN 0 ELSE 7)}
       IN (game.open /\ lastRank # {}) =>
              \/ game'.pieces = game.pieces /\ game'.currentTurn = game.currentTurn
              \/ \E i \in lastRank : \E type \in {QUEEN, ROOK, BISHOP, KNIGHT} :
                    game'.pieces = [game.pieces EXCEPT ![i] = [@ EXCEPT !.type = type]]]_vars

\* C28: when the player to move has selected a piece, every square that
\* calculateLegalMoves offers for it is such that, once movePiece has played
\* the move, no piece of the opponent attacks the mover's king.
OfferedMovesKeepKingSafe ==
    (/\ game.open
     /\ ~game.awaitingPromotion
     /\ game.selectedSquare # NoPos
     /\ game.pieces[Idx(game.selectedSquare)].color = game.currentTurn) =>
        \A to \in calculateLegalMoves(game) :
            LET after == movePiece(game, game.selectedSquare, to).pieces
            IN ~AttackedByRules(after, FindKing(after, game.currentTurn, 0),
                                Opponent(game.currentTurn))

\* C29: in the interactive game, hasLegalMoves is true for the side to move
\* exactly when a piece of that side has a destination that isValidMove
\* accepts.
HasLegalMovesIffValidMove ==
    game.open =>
        (hasLegalMoves(game, game.currentTurn)
            <=> \E from \in AllSquares :
                   /\ game.pieces[Idx(from)].color = game.currentTurn
                   /\ \E to \in AllSquares : isValidMove(game, from, to))

\* computeZobristHash.  The keys of initZobristKeys are 64-bit values drawn
\* from std::mt19937_64, one for each (square, piece type, colour), one for
\* each en passant file and one for the side to move, and the hash is the
\* XOR of the keys chosen; taking the keys to be independent, two hashes
\* are equal exactly when the same keys were chosen, so the hash is given
\* here as the keys chosen
computeZobristHash(p, side, epTarget) ==
    [pieceKeys |-> {<<pos[2] * 8 + pos[1], p[Idx(pos)].type, p[Idx(pos)].color>> :
                       pos \in {q \in AllSquares : p[Idx(q)] # NoPiece}},
     sideToMoveKey |-> side = BLACK,
     epFileKey |-> IF epTarget[1] >= 0 /\ epTarget[1] < 8 THEN epTarget[1] ELSE -1]

\* C30: two positions of the program that have the same pieces, the same
\* side to move and the same en passant target and differ in the castling
\* rights (the position before and the position after a step that changes
\* only the rights) have different hashes.
HashTellsCastlingRights ==
    [][(/\ board[0] # EmptyBoard
        /\ board'[0] = board[0]
        /\ sideToMove' = sideToMove
        /\ enPassantTarget' = enPassantTarget
        /\ castlingRights' # castlingRights)
       => computeZobristHash(board'[0], sideToMove', enPassantTarget')
              # computeZobristHash(board[0], sideToMove, enPassantTarget)]_vars

=============================================================================
